---- MODULE Spec2Model ----
(***************************************************************************)
(* Knowledge-graph ingestion and query layer of the government mapping     *)
(* dashboard (src/neo4j_knowledge_graph.py, src/data_pipeline.py).         *)
(*                                                                         *)
(* The labeled-property graph held by the engine is the state.  Nodes are  *)
(* kept per label and relationships per type; every node and relationship  *)
(* carries a copy index n, so that two nodes with the same identity key    *)
(* (or two relationships between the same ordered pair) are two elements   *)
(* of the state and uniqueness is a property to be checked, not a          *)
(* consequence of the representation.  Cypher clauses are modelled by what *)
(* the engine does with them: UNWIND processes the rows in order, MERGE    *)
(* binds every match and creates only when nothing matches, MATCH yields   *)
(* no row when nothing matches, SET overwrites.  Strings that the code     *)
(* splits, trims or parses are sequences of one-character strings.         *)
(* created_at timestamps and the pass-through attributes (mandate, state,  *)
(* coordinates, title, email, source) are not part of the state.           *)
(***************************************************************************)
EXTENDS Integers, Sequences, FiniteSets, TLC

VARIABLES graph, call, ret, log

vars == <<graph, call, ret, log>>

(***************************************************************************)
(* Bounds of the model.                                                    *)
(***************************************************************************)
MaxRows == 2

SeqsUpTo(S, n) == UNION {[1..k -> S] : k \in 0..n}

(***************************************************************************)
(* Values of a tabular cell.  pandas reads a missing cell as NaN; a cell   *)
(* of a text column is a string; a cell of a numeric column is a number.   *)
(***************************************************************************)
NaN == "NaN"
NaNText == <<"<NaN>">>
NumCell == <<"<number>">>

IsStr(s) == s # NaNText /\ s # NumCell

\* A cell that reaches the engine as a query parameter, and a stored
\* property: a number, a string, a float NaN or null (no property).
Num(v) == [t |-> "num", v |-> v, s |-> <<>>]
Str(s) == [t |-> "str", v |-> 0, s |-> s]
NaNCell == [t |-> "nan", v |-> 0, s |-> <<>>]
Null == [t |-> "null", v |-> 0, s |-> <<>>]

Digits == <<"0", "1", "2", "3", "4", "5", "6", "7", "8", "9">>
IsDigit(c) == \E d \in 1..10 : Digits[d] = c
DigitVal(c) == (CHOOSE d \in 1..10 : Digits[d] = c) - 1

RECURSIVE ParseDigits(_, _)
ParseDigits(s, acc) ==
  IF s = <<>> THEN acc ELSE ParseDigits(Tail(s), 10 * acc + DigitVal(Head(s)))

IsNumeric(s) == s # <<>> /\ \A i \in 1..Len(s) : IsDigit(s[i])

\* Cypher toInteger / toFloat: a number converts, a string is parsed and
\* gives null when it is not a number, null gives null; the NaN float
\* converts to the integer 0 and stays NaN as a float.
ToInteger(c) ==
  CASE c.t = "num" -> c
    [] c.t = "str" -> IF IsNumeric(c.s) THEN Num(ParseDigits(c.s, 0)) ELSE Null
    [] c.t = "nan" -> Num(0)
    [] OTHER -> Null

ToFloat(c) ==
  CASE c.t = "num" -> c
    [] c.t = "str" -> IF IsNumeric(c.s) THEN Num(ParseDigits(c.s, 0)) ELSE Null
    [] c.t = "nan" -> NaNCell
    [] OTHER -> Null

RECURSIVE LStrip(_)
LStrip(s) == IF s # <<>> /\ Head(s) = " " THEN LStrip(Tail(s)) ELSE s

RECURSIVE RStrip(_)
RStrip(s) ==
  IF s # <<>> /\ s[Len(s)] = " " THEN RStrip(SubSeq(s, 1, Len(s) - 1)) ELSE s

Strip(s) == RStrip(LStrip(s))

RECURSIVE SplitAcc(_, _, _)
SplitAcc(s, sep, cur) ==
  IF s = <<>> THEN <<cur>>
  ELSE IF Head(s) = sep THEN <<cur>> \o SplitAcc(Tail(s), sep, <<>>)
  ELSE SplitAcc(Tail(s), sep, Append(cur, Head(s)))

Split(s, sep) == SplitAcc(s, sep, <<>>)

Range(s) == {s[i] : i \in 1..Len(s)}

\* [p.strip() for p in policies.split('|')]
PolicyTokens(s) == [i \in 1..Len(Split(s, "|")) |-> Strip(Split(s, "|")[i])]

(***************************************************************************)
(* What a call gives back: the value it returns, or the exception that     *)
(* leaves it.  A method without a return statement returns None.           *)
(***************************************************************************)
Returned(v) == [exc |-> "", val |-> v]
Raised(e) == [exc |-> e, val |-> "None"]

(***************************************************************************)
(* The graph.                                                              *)
(***************************************************************************)
EmptyGraph ==
  [Entity |-> {}, Person |-> {}, Company |-> {}, Policy |-> {},
   REPORTS_TO |-> {}, WORKS_FOR |-> {}, PARTNERS_WITH |-> {}, ALIGNED_TO |-> {}]

EntityRef(x) == <<x.entity_id, x.n>>
PersonRef(x) == <<x.person_id, x.n>>
CompanyRef(x) == <<x.partner_id, x.n>>
PolicyRef(x) == <<x.name, x.n>>

MatchEntity(G, id) == {x \in G.Entity : x.entity_id = id}
MatchPerson(G, id) == {x \in G.Person : x.person_id = id}
MatchCompany(G, id) == {x \in G.Company : x.partner_id = id}
MatchPolicy(G, name) == {x \in G.Policy : x.name = name}

Between(rels, s, d) == {r \in rels : r.src = s /\ r.dst = d}

\* A defect: CREATE where the code says MERGE.
CreateRels(rels, pairs) ==
  rels \cup {[src |-> p[1], dst |-> p[2],
              n |-> Cardinality(Between(rels, p[1], p[2]))] : p \in pairs}

\* MERGE (a)-[r:T]->(b) for every bound pair (a, b): a relationship is
\* created only between a pair that has none.
MergeRels(rels, pairs) ==
  rels \cup {[src |-> p[1], dst |-> p[2], n |-> 0] :
               p \in {q \in pairs : Between(rels, q[1], q[2]) = {}}}

\* A defect: CREATE (e:Entity {...}) where the code says MERGE.
CreateEntityRow(G, row) ==
  [G EXCEPT !.Entity = @ \cup
     {[entity_id |-> row.entity_id,
       n |-> Cardinality(MatchEntity(G, row.entity_id)),
       name |-> row.name]}]

\* MERGE (e:Entity {entity_id: entity.entity_id}) SET e.name = entity.name
MergeEntityRow(G, row) ==
  LET m == MatchEntity(G, row.entity_id)
  IN  IF m = {}
      THEN [G EXCEPT !.Entity = @ \cup
              {[entity_id |-> row.entity_id, n |-> 0, name |-> row.name]}]
      ELSE [G EXCEPT !.Entity = (@ \ m) \cup
              {[x EXCEPT !.name = row.name] : x \in m}]

\* UNWIND $entities AS entity MERGE ... RETURN count(e) as created
RECURSIVE MergeEntities(_, _)
MergeEntities(G, rows) ==
  IF rows = <<>> THEN [g |-> G, c |-> 0]
  ELSE LET G1 == MergeEntityRow(G, Head(rows))
           r == MergeEntities(G1, Tail(rows))
       IN  [g |-> r.g,
            c |-> r.c + Cardinality(MatchEntity(G1, Head(rows).entity_id))]

\* A defect: the parent is merged, not matched, so a missing parent is made up.
HierarchyRowMergeParent(G, rel) ==
  LET G1 == MergeEntityRow(G, [entity_id |-> rel.parent_id, name |-> NaN])
      cs == {EntityRef(x) : x \in MatchEntity(G1, rel.child_id)}
      ps == {EntityRef(x) : x \in MatchEntity(G1, rel.parent_id)}
  IN  [g |-> [G1 EXCEPT !.REPORTS_TO = MergeRels(@, cs \X ps)],
       c |-> Cardinality(cs \X ps)]

\* MATCH (child) MATCH (parent) MERGE (child)-[r:REPORTS_TO]->(parent)
HierarchyRow(G, rel) ==
  LET cs == {EntityRef(x) : x \in MatchEntity(G, rel.child_id)}
      ps == {EntityRef(x) : x \in MatchEntity(G, rel.parent_id)}
  IN  [g |-> [G EXCEPT !.REPORTS_TO = MergeRels(@, cs \X ps)],
       c |-> Cardinality(cs \X ps)]

RECURSIVE HierarchyRows(_, _)
HierarchyRows(G, rels) ==
  IF rels = <<>> THEN [g |-> G, c |-> 0]
  ELSE LET h == HierarchyRow(G, Head(rels))
           r == HierarchyRows(h.g, Tail(rels))
       IN  [g |-> r.g, c |-> r.c + h.c]

HasParent(row) == row.parent_org # NaN

\* entities_df[entities_df['parent_org'].notna()] as child/parent pairs
HierarchyRels(batch) ==
  LET hier == SelectSeq(batch, HasParent)
  IN  [i \in 1..Len(hier) |->
         [child_id |-> hier[i].entity_id, parent_id |-> hier[i].parent_org]]

\* _create_entity_hierarchy: the log line is written only when the query ran.
CreateEntityHierarchy(G, batch) ==
  LET rels == HierarchyRels(batch)
      h == HierarchyRows(G, rels)
  IN  IF rels = <<>> THEN [g |-> G, log |-> <<>>]
      ELSE [g |-> h.g, log |-> <<[msg |-> "hierarchical relationships", n |-> h.c]>>]

\* all_policies: the stripped tokens of every string cell.
AllPolicies(batch) ==
  UNION {Range(PolicyTokens(batch[i].policy_alignment)) :
           i \in {j \in 1..Len(batch) : IsStr(batch[j].policy_alignment)}}

\* A defect: CREATE (p:Policy {...}) where the code says MERGE.
CreatePolicies(G, names) ==
  [G EXCEPT !.Policy = @ \cup
     {[name |-> nm, n |-> Cardinality(MatchPolicy(G, nm))] : nm \in names}]

\* UNWIND $policies AS policy_name MERGE (p:Policy {name: policy_name})
MergePolicies(G, names) ==
  [G EXCEPT !.Policy = @ \cup
     {[name |-> nm, n |-> 0] : nm \in {x \in names : MatchPolicy(G, x) = {}}}]

\* The alignments of one row: one per token, in order.
RowAlignments(row) ==
  LET toks == PolicyTokens(row.policy_alignment)
  IN  [i \in 1..Len(toks) |-> [entity_id |-> row.entity_id, policy_name |-> toks[i]]]

RECURSIVE Alignments(_)
Alignments(batch) ==
  IF batch = <<>> THEN <<>>
  ELSE (IF Head(batch).policy_alignment # NaNText
        THEN RowAlignments(Head(batch)) ELSE <<>>) \o Alignments(Tail(batch))

\* row['policy_alignment'].split('|') on a cell that is neither missing nor text
AlignmentsRaise(batch) ==
  \E i \in 1..Len(batch) : batch[i].policy_alignment = NumCell

\* MATCH (e:Entity) MATCH (p:Policy) MERGE (e)-[r:ALIGNED_TO]->(p)
AlignRow(G, al) ==
  LET es == {EntityRef(x) : x \in MatchEntity(G, al.entity_id)}
      ps == {PolicyRef(x) : x \in MatchPolicy(G, al.policy_name)}
  IN  [g |-> [G EXCEPT !.ALIGNED_TO = MergeRels(@, es \X ps)],
       c |-> Cardinality(es \X ps)]

RECURSIVE AlignRows(_, _)
AlignRows(G, als) ==
  IF als = <<>> THEN [g |-> G, c |-> 0]
  ELSE LET a == AlignRow(G, Head(als))
           r == AlignRows(a.g, Tail(als))
       IN  [g |-> r.g, c |-> r.c + a.c]

\* _create_policy_alignments: the Policy nodes are written before the
\* alignment list is built, so a cell that makes split raise leaves them.
CreatePolicyAlignments(G, batch) ==
  LET pols == AllPolicies(batch)
      G1 == MergePolicies(G, pols)
      l1 == <<[msg |-> "policy nodes", n |-> Cardinality(pols)]>>
      a == AlignRows(G1, Alignments(batch))
  IN  IF AlignmentsRaise(batch)
      THEN [g |-> G1, log |-> l1, ret |-> Raised("AttributeError")]
      ELSE [g |-> a.g,
            log |-> Append(l1, [msg |-> "policy alignment relationships", n |-> a.c]),
            ret |-> Returned("None")]

\* A defect: each row's node and REPORTS_TO relationship are written
\* before the next row is read.
RECURSIVE EntitiesRowByRow(_, _)
EntitiesRowByRow(G, rows) ==
  IF rows = <<>> THEN [g |-> G, c |-> 0, h |-> 0]
  ELSE LET G1 == MergeEntityRow(G, Head(rows))
           w == HierarchyRows(G1, HierarchyRels(<<Head(rows)>>))
           r == EntitiesRowByRow(w.g, Tail(rows))
       IN  [g |-> r.g,
            c |-> r.c + Cardinality(MatchEntity(G1, Head(rows).entity_id)),
            h |-> r.h + w.c]

ImportEntitiesRowByRow(G, batch) ==
  LET m == EntitiesRowByRow(G, batch)
      p == CreatePolicyAlignments(m.g, batch)
  IN  [g |-> p.g,
       log |-> <<[msg |-> "Importing entities", n |-> Len(batch)],
                 [msg |-> "entity nodes", n |-> m.c]>>
                 \o (IF HierarchyRels(batch) = <<>> THEN <<>>
                     ELSE <<[msg |-> "hierarchical relationships", n |-> m.h]>>)
                 \o p.log,
       ret |-> p.ret]

\* import_entities: node merge, then hierarchy, then policy alignments.
ImportEntitiesOp(G, batch) ==
  LET m == MergeEntities(G, batch)
      h == CreateEntityHierarchy(m.g, batch)
      p == CreatePolicyAlignments(h.g, batch)
  IN  [g |-> p.g,
       log |-> <<[msg |-> "Importing entities", n |-> Len(batch)],
                 [msg |-> "entity nodes", n |-> m.c]>> \o h.log \o p.log,
       ret |-> p.ret]

DoImportEntities(batch) ==
  LET r == ImportEntitiesOp(graph, batch)
  IN  /\ graph' = r.g
      /\ ret' = r.ret
      /\ log' = r.log
      /\ call' = "import_entities"

(***************************************************************************)
(* import_people.  confidence_score is kept in tenths (14 is 1.4).         *)
(***************************************************************************)
PersonProps(row, n) ==
  [person_id |-> row.person_id, n |-> n, name |-> row.name,
   role_type |-> row.role_type, focus_area |-> row.focus_area,
   confidence_score |-> ToFloat(row.confidence_score)]

\* A defect: CREATE (p:Person {...}) where the code says MERGE.
CreatePersonRow(G, row) ==
  [G EXCEPT !.Person = @ \cup
     {PersonProps(row, Cardinality(MatchPerson(G, row.person_id)))}]

\* MERGE (p:Person {person_id: person.person_id}) SET p.name = ..., ...
MergePersonRow(G, row) ==
  LET m == MatchPerson(G, row.person_id)
  IN  IF m = {}
      THEN [G EXCEPT !.Person = @ \cup {PersonProps(row, 0)}]
      ELSE [G EXCEPT !.Person = (@ \ m) \cup {PersonProps(row, x.n) : x \in m}]

RECURSIVE MergePeople(_, _)
MergePeople(G, rows) ==
  IF rows = <<>> THEN [g |-> G, c |-> 0]
  ELSE LET G1 == MergePersonRow(G, Head(rows))
           r == MergePeople(G1, Tail(rows))
       IN  [g |-> r.g,
            c |-> r.c + Cardinality(MatchPerson(G1, Head(rows).person_id))]

\* A defect: the employer is merged, not matched.
WorksForRowMergeEntity(G, row) ==
  LET G1 == MergeEntityRow(G, [entity_id |-> row.entity_id, name |-> NaN])
      ps == {PersonRef(x) : x \in MatchPerson(G1, row.person_id)}
      es == {EntityRef(x) : x \in MatchEntity(G1, row.entity_id)}
  IN  [g |-> [G1 EXCEPT !.WORKS_FOR = MergeRels(@, ps \X es)],
       c |-> Cardinality(ps \X es)]

\* A defect: the relationships to the person's earlier employers are deleted.
WorksForRowReplace(G, row) ==
  LET ps == {PersonRef(x) : x \in MatchPerson(G, row.person_id)}
      es == {EntityRef(x) : x \in MatchEntity(G, row.entity_id)}
      kept == {r \in G.WORKS_FOR : r.src \notin ps \/ r.dst \in es}
  IN  [g |-> [G EXCEPT !.WORKS_FOR = MergeRels(kept, ps \X es)],
       c |-> Cardinality(ps \X es)]

\* MATCH (p:Person) MATCH (e:Entity) MERGE (p)-[r:WORKS_FOR]->(e)
WorksForRow(G, row) ==
  LET ps == {PersonRef(x) : x \in MatchPerson(G, row.person_id)}
      es == {EntityRef(x) : x \in MatchEntity(G, row.entity_id)}
  IN  [g |-> [G EXCEPT !.WORKS_FOR = MergeRels(@, ps \X es)],
       c |-> Cardinality(ps \X es)]

RECURSIVE WorksForRows(_, _)
WorksForRows(G, rows) ==
  IF rows = <<>> THEN [g |-> G, c |-> 0]
  ELSE LET w == WorksForRow(G, Head(rows))
           r == WorksForRows(w.g, Tail(rows))
       IN  [g |-> r.g, c |-> r.c + w.c]

\* import_people: node merge, then one WORKS_FOR query over every row.  The
\* method has no return statement; what it reports is its three log lines.
ImportPeopleOp(G, batch) ==
  LET m == MergePeople(G, batch)
      w == WorksForRows(m.g, batch)
  IN  [g |-> w.g,
       log |-> <<[msg |-> "Importing people", n |-> Len(batch)],
                 [msg |-> "person nodes", n |-> m.c],
                 [msg |-> "WORKS_FOR relationships", n |-> w.c]>>,
       ret |-> Returned("None")]

DoImportPeople(batch) ==
  LET r == ImportPeopleOp(graph, batch)
  IN  /\ graph' = r.g
      /\ ret' = r.ret
      /\ log' = r.log
      /\ call' = "import_people"

\* df.drop_duplicates(subset=[key], keep='first')
RECURSIVE DropDuplicates(_, _, _)
DropDuplicates(rows, subset, seen) ==
  IF rows = <<>> THEN <<>>
  ELSE IF Head(rows)[subset] \in seen THEN DropDuplicates(Tail(rows), subset, seen)
  ELSE <<Head(rows)>> \o DropDuplicates(Tail(rows), subset, seen \cup {Head(rows)[subset]})

\* Series.clip(lo, hi): NaN stays NaN.
Clip(c, lo, hi) ==
  IF c.t # "num" THEN c
  ELSE IF c.v < lo THEN Num(lo) ELSE IF c.v > hi THEN Num(hi) ELSE c

PersonKey == "person_id"
PersonComplete(row) ==
  row.name # NaN /\ row.person_id # NaN /\ row.entity_id # NaN

\* _clean_people: duplicates dropped, confidence clipped to [0, 1], rows
\* with a missing name, person_id or entity_id removed.
CleanPeople(batch) ==
  LET d == DropDuplicates(batch, PersonKey, {})
      c == [i \in 1..Len(d) |->
              [d[i] EXCEPT !.confidence_score = Clip(@, 0, 10)]]
  IN  SelectSeq(c, PersonComplete)

(***************************************************************************)
(* import_partners.                                                        *)
(***************************************************************************)
CompanyProps(row, n) ==
  [partner_id |-> row.partner_id, n |-> n, name |-> row.company_name]

\* MERGE (c:Company {partner_id: partner.partner_id}) SET c.name = ...
MergeCompanyRow(G, row) ==
  LET m == MatchCompany(G, row.partner_id)
  IN  IF m = {}
      THEN [G EXCEPT !.Company = @ \cup {CompanyProps(row, 0)}]
      ELSE [G EXCEPT !.Company = (@ \ m) \cup {CompanyProps(row, x.n) : x \in m}]

RECURSIVE MergeCompanies(_, _)
MergeCompanies(G, rows) ==
  IF rows = <<>> THEN [g |-> G, c |-> 0]
  ELSE LET G1 == MergeCompanyRow(G, Head(rows))
           r == MergeCompanies(G1, Tail(rows))
       IN  [g |-> r.g,
            c |-> r.c + Cardinality(MatchCompany(G1, Head(rows).partner_id))]

PartnershipProps(row, s, d, n) ==
  [src |-> s, dst |-> d, n |-> n,
   relationship_type |-> row.relationship_type,
   contract_value_rm |-> ToInteger(row.contract_value_rm),
   contract_year |-> ToInteger(row.contract_year)]

\* MERGE (c)-[r:PARTNERS_WITH]->(e) SET r.relationship_type = ..., ...:
\* every relationship between a bound pair is overwritten, and a pair
\* that has none gets one.
MergePartnerships(rels, pairs, row) ==
  LET hit == {r \in rels : <<r.src, r.dst>> \in pairs}
      miss == {p \in pairs : Between(rels, p[1], p[2]) = {}}
  IN  (rels \ hit)
        \cup {PartnershipProps(row, r.src, r.dst, r.n) : r \in hit}
        \cup {PartnershipProps(row, p[1], p[2], 0) : p \in miss}

\* MATCH (c:Company) MATCH (e:Entity) MERGE ... SET ...
PartnershipRow(G, row) ==
  LET cs == {CompanyRef(x) : x \in MatchCompany(G, row.partner_id)}
      es == {EntityRef(x) : x \in MatchEntity(G, row.entity_id)}
  IN  [g |-> [G EXCEPT !.PARTNERS_WITH = MergePartnerships(@, cs \X es, row)],
       c |-> Cardinality(cs \X es)]

RECURSIVE PartnershipRows(_, _)
PartnershipRows(G, rows) ==
  IF rows = <<>> THEN [g |-> G, c |-> 0]
  ELSE LET w == PartnershipRow(G, Head(rows))
           r == PartnershipRows(w.g, Tail(rows))
       IN  [g |-> r.g, c |-> r.c + w.c]

\* import_partners: Company merge, then one PARTNERS_WITH query over every row.
ImportPartnersOp(G, batch) ==
  LET m == MergeCompanies(G, batch)
      w == PartnershipRows(m.g, batch)
  IN  [g |-> w.g,
       log |-> <<[msg |-> "Importing partners", n |-> Len(batch)],
                 [msg |-> "company nodes", n |-> m.c],
                 [msg |-> "PARTNERS_WITH relationships", n |-> w.c]>>,
       ret |-> Returned("None")]

DoImportPartners(batch) ==
  LET r == ImportPartnersOp(graph, batch)
  IN  /\ graph' = r.g
      /\ ret' = r.ret
      /\ log' = r.log
      /\ call' = "import_partners"

\* pd.to_numeric(errors='coerce'): what is not a number becomes NaN.
ToNumeric(c) ==
  CASE c.t = "num" -> c
    [] c.t = "str" -> IF IsNumeric(c.s) THEN Num(ParseDigits(c.s, 0)) ELSE NaNCell
    [] OTHER -> NaNCell

FillNa(c, v) == IF c.t = "nan" THEN Num(v) ELSE c

MinContractYear == 2000
CurrentYear == 2026

PartnerKey == "partner_id"
PartnerComplete(row) ==
  row.company_name # NaN /\ row.partner_id # NaN /\ row.entity_id # NaN

\* _clean_partners: duplicates dropped, contract_value_rm made numeric with
\* 0 for what is not, contract_year made numeric and clipped, incomplete
\* rows removed.
CleanPartners(batch) ==
  LET d == DropDuplicates(batch, PartnerKey, {})
      c == [i \in 1..Len(d) |->
              [d[i] EXCEPT
                 !.contract_value_rm = FillNa(ToNumeric(@), 0),
                 !.contract_year = Clip(ToNumeric(@), MinContractYear, CurrentYear + 5)]]
  IN  SelectSeq(c, PartnerComplete)

(***************************************************************************)
(* _clean_entities and the load sequence of the pipeline.                  *)
(***************************************************************************)
ReplaceChar(s, a, b) == [i \in 1..Len(s) |-> IF s[i] = a THEN b ELSE s[i]]

\* str.replace('  ', ' '): every non-overlapping pair of spaces, left to right.
RECURSIVE ReplaceDoubleSpace(_)
ReplaceDoubleSpace(s) ==
  IF Len(s) < 2 THEN s
  ELSE IF s[1] = " " /\ s[2] = " "
       THEN <<" ">> \o ReplaceDoubleSpace(SubSeq(s, 3, Len(s)))
       ELSE <<s[1]>> \o ReplaceDoubleSpace(Tail(s))

\* The .str accessor of a text column: a cell that is not text becomes NaN.
CleanPolicyAlignment(s) ==
  IF IsStr(s) THEN ReplaceDoubleSpace(ReplaceChar(s, ",", "|")) ELSE NaNText

EntityKey == "entity_id"
EntityComplete(row) == row.name # NaN /\ row.entity_id # NaN

\* _clean_entities: duplicates dropped, separators standardised, rows
\* with a missing name or entity_id removed.
CleanEntities(batch) ==
  LET d == DropDuplicates(batch, EntityKey, {})
      c == [i \in 1..Len(d) |->
              [d[i] EXCEPT !.policy_alignment = CleanPolicyAlignment(@)]]
  IN  SelectSeq(c, EntityComplete)

\* get_graph_statistics (GovernmentKnowledgeGraph): a chain of MATCH ...
\* WITH count(...).  The first count has no grouping key and gives one row,
\* 0 when there is no Entity; every later WITH groups by the counts before
\* it, so a MATCH that finds nothing leaves no row, and
\* dict(result.single()) raises on no row.
GetGraphStatisticsOp(G) ==
  LET rels == Cardinality(G.REPORTS_TO) + Cardinality(G.WORKS_FOR)
                + Cardinality(G.PARTNERS_WITH) + Cardinality(G.ALIGNED_TO)
  IN  IF G.Person = {} \/ G.Company = {} \/ G.Policy = {} \/ rels = 0
      THEN Raised("TypeError")
      ELSE Returned([entities |-> Cardinality(G.Entity),
                     people |-> Cardinality(G.Person),
                     companies |-> Cardinality(G.Company),
                     policies |-> Cardinality(G.Policy),
                     relationships |-> rels])

\* load_to_neo4j: import_entities, import_people, import_partners, then the
\* statistics; an exception ends the sequence where it is raised and is
\* raised again to the caller.
LoadToNeo4jOp(G, eb, pb, cb) ==
  LET e == ImportEntitiesOp(G, eb)
      p == ImportPeopleOp(e.g, pb)
      c == ImportPartnersOp(p.g, cb)
      st == GetGraphStatisticsOp(c.g)
  IN  IF e.ret.exc # "" THEN [g |-> e.g, log |-> e.log, ret |-> e.ret]
      ELSE [g |-> c.g,
            log |-> e.log \o p.log \o c.log,
            ret |-> IF st.exc # "" THEN st ELSE Returned("None")]

\* run_full_pipeline: clean_data, then load_to_neo4j on the cleaned frames.
RunFullPipelineOp(G, eb, pb, cb) ==
  LoadToNeo4jOp(G, CleanEntities(eb), CleanPeople(pb), CleanPartners(cb))

DoRunFullPipeline(eb, pb, cb) ==
  LET r == RunFullPipelineOp(graph, eb, pb, cb)
  IN  /\ graph' = r.g
      /\ ret' = r.ret
      /\ log' = r.log
      /\ call' = "run_full_pipeline"

(***************************************************************************)
(* get_entity_hierarchy.  The variable-length pattern [:REPORTS_TO*0..]    *)
(* yields one row per path that repeats no relationship, the zero-length   *)
(* path first, depth first.  The order in which the engine walks the       *)
(* relationships of one node is not specified: ord is that order.          *)
(***************************************************************************)
Perms(S) == {f \in [1..Cardinality(S) -> S] : Range(f) = S}

\* The relationships of rels that leave (dir = "out") or enter (dir = "in")
\* node v and are not in used, as a sequence ordered by ord over the ids of
\* the node at the other end.
Far(r, dir) == IF dir = "out" THEN r.dst ELSE r.src
Near(r, dir) == IF dir = "out" THEN r.src ELSE r.dst

RECURSIVE SetToSeq(_)
SetToSeq(S) ==
  IF S = {} THEN <<>>
  ELSE LET x == CHOOSE y \in S : TRUE IN <<x>> \o SetToSeq(S \ {x})

RECURSIVE Expand(_, _, _, _, _)
RECURSIVE ExpandList(_, _, _, _, _)
\* The end nodes of the paths from v, v itself (the zero-length path) first.
Expand(rels, v, used, dir, ord) ==
  LET next == [i \in 1..Len(ord) |->
                 SetToSeq({r \in rels \ used : Near(r, dir) = v /\ Far(r, dir)[1] = ord[i]})]
      RECURSIVE Flat(_)
      Flat(i) == IF i > Len(ord) THEN <<>> ELSE next[i] \o Flat(i + 1)
  IN  <<v>> \o ExpandList(rels, Flat(1), used, dir, ord)

ExpandList(rels, es, used, dir, ord) ==
  IF es = <<>> THEN <<>>
  ELSE Expand(rels, Far(Head(es), dir), used \cup {Head(es)}, dir, ord)
         \o ExpandList(rels, Tail(es), used, dir, ord)

EntityOf(G, ref) == CHOOSE x \in G.Entity : EntityRef(x) = ref

NodeRecords(G, refs) ==
  [i \in 1..Len(refs) |->
     [name |-> EntityOf(G, refs[i]).name, id |-> refs[i][1]]]

\* dict(result.single()): no row makes single() return None and dict raise.
GetEntityHierarchyOp(G, entity_id, ord) ==
  LET es == MatchEntity(G, entity_id)
      e == CHOOSE x \in es : TRUE
  IN  IF es = {} THEN Raised("TypeError")
      ELSE Returned(
             [entity_name |-> e.name,
              parents |-> NodeRecords(G, Expand(G.REPORTS_TO, EntityRef(e), {}, "out", ord)),
              children |-> NodeRecords(G, Expand(G.REPORTS_TO, EntityRef(e), {}, "in", ord))])

(***************************************************************************)
(* The hierarchy specification: entity batches over three identity keys.   *)
(***************************************************************************)
HEntityIds == {"E1", "E2", "E3"}

HParents == {"E1", "E2"}

HEntityRows ==
  [entity_id : HEntityIds, name : {"n"}, parent_org : HParents \cup {NaN},
   policy_alignment : {NaNText, NumCell}]

HEntityBatches == SeqsUpTo(HEntityRows, MaxRows)

Init ==
  /\ graph = EmptyGraph
  /\ call = "init"
  /\ ret = Returned("None")
  /\ log = <<>>

HImportEntities == \E b \in HEntityBatches : DoImportEntities(b)

HGetEntityHierarchy ==
  \E id \in HEntityIds : \E ord \in Perms(HEntityIds) :
    /\ ret' = GetEntityHierarchyOp(graph, id, ord)
    /\ call' = "get_entity_hierarchy"
    /\ log' = <<>>
    /\ UNCHANGED graph

NextHierarchy == HImportEntities \/ HGetEntityHierarchy

SpecHierarchy == Init /\ [][NextHierarchy]_vars

EntityIdsOf(G) == {x.entity_id : x \in G.Entity}
ReportsToPairs(G) == {<<r.src[1], r.dst[1]>> : r \in G.REPORTS_TO}
LogHas(lg, m, k) == \E i \in 1..Len(lg) : lg[i].msg = m /\ lg[i].n = k

\* C6: import_entities creates a REPORTS_TO relationship child -> parent
\* only for a row whose entity_id and parent_org both exist as Entity nodes;
\* every relationship joins existing Entity nodes, the only nodes the call
\* adds are those of the rows' own entity_id (no placeholder parent), and
\* an unmatched parent_org does not make the call raise: it raises only on
\* a policy_alignment cell that cannot be split, whatever the parents are.
C6_ReportsToOnlyBetweenExisting ==
  \A b \in HEntityBatches :
    LET r == ImportEntitiesOp(graph, b)
        wanted == {<<b[i].entity_id, b[i].parent_org>> :
                     i \in {j \in 1..Len(b) : HasParent(b[j])}}
    IN  /\ EntityIdsOf(r.g) = EntityIdsOf(graph) \cup {b[i].entity_id : i \in 1..Len(b)}
        /\ ReportsToPairs(r.g) =
             ReportsToPairs(graph) \cup
             {p \in wanted : p[1] \in EntityIdsOf(r.g) /\ p[2] \in EntityIdsOf(r.g)}
        /\ \A e \in r.g.REPORTS_TO :
             /\ \E x \in r.g.Entity : EntityRef(x) = e.src
             /\ \E x \in r.g.Entity : EntityRef(x) = e.dst
        /\ (r.ret.exc = "") = ~AlignmentsRaise(b)

\* import_entities has returned, E3 is in the graph without its parent E2,
\* and importing E3 with parent_org E2 again runs the hierarchy query,
\* which matches nothing, and returns.
C6_Witness ==
  /\ call = "import_entities"
  /\ ret.exc = ""
  /\ EntityIdsOf(graph) = {"E1", "E3"}
  /\ LET b == <<[entity_id |-> "E3", name |-> "n", parent_org |-> "E2",
                 policy_alignment |-> NaNText]>>
         r == ImportEntitiesOp(graph, b)
     IN  /\ b \in HEntityBatches
         /\ LogHas(r.log, "hierarchical relationships", 0)
         /\ r.ret.exc = ""
         /\ r.g = graph

SelfRecord(G, id) == {[name |-> x.name, id |-> x.entity_id] : x \in MatchEntity(G, id)}

\* Every entity has at most one REPORTS_TO relationship going out, and
\* following them never comes back: the hierarchy is a forest of chains.
ParentsOf(G, ref) == {r.dst : r \in {q \in G.REPORTS_TO : q.src = ref}}
ChildrenOf(G, ref) == {r.src : r \in {q \in G.REPORTS_TO : q.dst = ref}}

RECURSIVE AncestorChain(_, _, _)
AncestorChain(G, ref, fuel) ==
  IF fuel = 0 \/ ParentsOf(G, ref) = {} THEN <<>>
  ELSE LET p == CHOOSE q \in ParentsOf(G, ref) : TRUE
       IN  <<p>> \o AncestorChain(G, p, fuel - 1)

IsForest(G) ==
  /\ \A x \in G.Entity : Cardinality({q \in G.REPORTS_TO : q.src = EntityRef(x)}) <= 1
  /\ \A x \in G.Entity :
       Len(AncestorChain(G, EntityRef(x), Cardinality(G.Entity))) < Cardinality(G.Entity)

IdsOfRecords(rs) == [i \in 1..Len(rs) |-> rs[i].id]
IdsOfRefs(refs) == [i \in 1..Len(refs) |-> refs[i][1]]

\* C7: in a REPORTS_TO chain, get_entity_hierarchy(x) returns as parents
\* exactly the proper ancestors of x, nearest first (for E3 -> E2 -> E1 the
\* parents of E3 are E2, E1), and no other node.
C7_ParentsAreProperAncestors ==
  IsForest(graph) =>
    \A id \in EntityIdsOf(graph) : \A ord \in Perms(HEntityIds) :
      LET r == GetEntityHierarchyOp(graph, id, ord)
          e == CHOOSE x \in MatchEntity(graph, id) : TRUE
      IN  r.exc = "" =>
            IdsOfRecords(r.val.parents) =
              IdsOfRefs(AncestorChain(graph, EntityRef(e), Cardinality(graph.Entity)))

\* C8: the children returned by get_entity_hierarchy(x) are exactly the
\* entities with a REPORTS_TO relationship to x, each once: neither x
\* itself nor a deeper descendant is among them.
C8_ChildrenAreDirectChildren ==
  \A id \in EntityIdsOf(graph) : \A ord \in Perms(HEntityIds) :
    LET r == GetEntityHierarchyOp(graph, id, ord)
        e == CHOOSE x \in MatchEntity(graph, id) : TRUE
        direct == {c[1] : c \in ChildrenOf(graph, EntityRef(e))}
    IN  r.exc = "" =>
          /\ Range(IdsOfRecords(r.val.children)) = direct
          /\ Len(r.val.children) = Cardinality(direct)

(***************************************************************************)
(* The people specification: one entity that can be imported, people who   *)
(* name it or an entity that never is.                                     *)
(***************************************************************************)
PEntityRows ==
  [entity_id : {"E1"}, name : {"n"}, parent_org : {NaN}, policy_alignment : {NaNText}]

PEntityBatches == SeqsUpTo(PEntityRows, MaxRows)

PersonRows ==
  [person_id : {"P1", "P2"}, name : {"p"}, entity_id : {"E1", "E2"},
   role_type : {"Executive"}, focus_area : {<<"A", "I">>},
   confidence_score : {Num(-2), Num(5), Num(14)}]

PersonBatches == SeqsUpTo(PersonRows, MaxRows)

PImportEntities == \E b \in PEntityBatches : DoImportEntities(b)

PImportPeople == \E b \in PersonBatches : DoImportPeople(b)

NextPeople == PImportEntities \/ PImportPeople

SpecPeople == Init /\ [][NextPeople]_vars

WorksForPairs(G) == {<<r.src[1], r.dst[1]>> : r \in G.WORKS_FOR}
PersonIdsOf(G) == {x.person_id : x \in G.Person}

LogCount(lg, m) == (CHOOSE e \in Range(lg) : e.msg = m).n

\* C3: in import_people a row whose entity_id matches no Entity node
\* produces no WORKS_FOR relationship, the call does not fail, the other
\* rows are processed, and the number of skipped rows is counted and
\* surfaced: the call returns it or logs it as the number of skipped rows.
\* (The rows the WORKS_FOR query matched are what the call logs; the rows
\* of the batch it did not match are the skipped ones.)
C3_SkippedRowsCountedAndSurfaced ==
  call = "import_people" =>
    LET skipped == LogCount(log, "Importing people")
                     - LogCount(log, "WORKS_FOR relationships")
    IN  /\ ret.exc = ""
        /\ \A r \in graph.WORKS_FOR :
             /\ \E x \in graph.Person : PersonRef(x) = r.src
             /\ \E x \in graph.Entity : EntityRef(x) = r.dst
        /\ skipped > 0 =>
             \/ ret.val # "None"
             \/ LogHas(log, "skipped rows", skipped)

\* C4: every Person node stored by import_people has a confidence_score
\* within [0, 1] (tenths: 0..10), whatever the batch: 1.4 is stored as 1.0
\* and -0.2 as 0.0.
C4_StoredConfidenceWithinUnitInterval ==
  \A x \in graph.Person :
    /\ x.confidence_score.t = "num"
    /\ x.confidence_score.v >= 0
    /\ x.confidence_score.v <= 10


(***************************************************************************)
(* The partners specification: one entity that can be imported, partner    *)
(* rows whose contract fields are numbers or text that is not a number.    *)
(***************************************************************************)
ContractValues == {Num(100), Str(<<"x">>)}
ContractYears == {Num(2024), Str(<<"x">>)}

PartnerRows ==
  [partner_id : {"C1", "C2"}, company_name : {"c"}, entity_id : {"E1", "E2"},
   relationship_type : {"Vendor"},
   contract_value_rm : ContractValues, contract_year : ContractYears]

PartnerBatches == SeqsUpTo(PartnerRows, MaxRows)

QImportEntities == \E b \in PEntityBatches : DoImportEntities(b)

QImportPartners == \E b \in PartnerBatches : DoImportPartners(b)

NextPartners == QImportEntities \/ QImportPartners

SpecPartners == Init /\ [][NextPartners]_vars

\* C10: import_partners on a row whose contract_value_rm or contract_year
\* is not numeric does not raise, the Company node and the PARTNERS_WITH
\* relationship of the row are there, and what is stored on the
\* relationship is a number: the number of the row, or 0 for a field that
\* is not numeric.
C10_NonNumericContractStoredAsZero ==
  call = "import_partners" =>
    /\ ret.exc = ""
    /\ \A r \in graph.PARTNERS_WITH :
         /\ \E x \in graph.Company : CompanyRef(x) = r.src
         /\ r.contract_value_rm \in {Num(100), Num(0)}
         /\ r.contract_year \in {Num(2024), Num(0)}


(***************************************************************************)
(* The policy specification: two entities, policy_alignment cells that     *)
(* are missing, text with one or two tokens (one with a blank to trim), or *)
(* a number.                                                               *)
(***************************************************************************)
PolicyCells ==
  {NaNText, NumCell, <<"a", "|", "b">>, <<"a", "|", " ", "a">>, <<"b">>}

AEntityRows ==
  [entity_id : {"E1", "E2"}, name : {"n"}, parent_org : {NaN},
   policy_alignment : PolicyCells]

AEntityBatches == SeqsUpTo(AEntityRows, MaxRows)

AImportEntities == \E b \in AEntityBatches : DoImportEntities(b)

NextPolicy == AImportEntities

SpecPolicy == Init /\ [][NextPolicy]_vars

AlignedPolicies(G, id) ==
  {r.dst[1] : r \in {q \in G.ALIGNED_TO : q.src[1] = id}}

AlignedEdges(G, id) == {q \in G.ALIGNED_TO : q.src[1] = id}

\* The trimmed tokens of every row of the batch that names the entity.
TokensOf(b, id) ==
  UNION {Range(PolicyTokens(b[j].policy_alignment)) :
           j \in {k \in 1..Len(b) : b[k].entity_id = id /\ IsStr(b[k].policy_alignment)}}

RowsAligned(b, G) ==
  \A i \in 1..Len(b) :
    IsStr(b[i].policy_alignment) =>
      LET id == b[i].entity_id
      IN  /\ AlignedPolicies(G, id) = TokensOf(b, id)
          /\ Cardinality(AlignedEdges(G, id)) = Cardinality(TokensOf(b, id))
          /\ \A r \in AlignedEdges(G, id) : \E x \in G.Policy : PolicyRef(x) = r.dst

\* C5: a call of import_entities on a fresh graph leaves every row whose
\* policy_alignment is text with one ALIGNED_TO relationship from its
\* entity to the Policy node of each of its distinct trimmed tokens, and
\* no other: exactly k relationships for a row of k distinct tokens (the
\* tokens of all its rows when several rows name the same entity).
C5_OneAlignedToEdgePerToken ==
  [][\A b \in AEntityBatches :
       (/\ graph = EmptyGraph
        /\ call' = "import_entities"
        /\ graph' = ImportEntitiesOp(graph, b).g
        /\ ret' = ImportEntitiesOp(graph, b).ret
        /\ log' = ImportEntitiesOp(graph, b).log)
         => RowsAligned(b, graph')]_vars


(***************************************************************************)
(* The import specification: the three imports in any order, on batches    *)
(* that repeat a key, update a record or overlap with an earlier batch.    *)
(***************************************************************************)
EntityRows ==
  [entity_id : {"E1", "E2"}, name : {"n"}, parent_org : {NaN, "E1"},
   policy_alignment : {<<"a">>}]

EntityBatches == SeqsUpTo(EntityRows, MaxRows)

PeopleRows ==
  [person_id : {"P1"}, name : {"p", "q"}, entity_id : {"E1", "E2"},
   role_type : {"Executive"}, focus_area : {<<"A", "I">>},
   confidence_score : {Num(5)}]

PeopleBatches == SeqsUpTo(PeopleRows, MaxRows)

CompanyRows ==
  [partner_id : {"C1"}, company_name : {"c"}, entity_id : {"E1", "E2"},
   relationship_type : {"Vendor"},
   contract_value_rm : {Num(100), Num(200)}, contract_year : {Num(2024)}]

CompanyBatches == SeqsUpTo(CompanyRows, MaxRows)

ImportEntities == \E b \in EntityBatches : DoImportEntities(b)

ImportPeople == \E b \in PeopleBatches : DoImportPeople(b)

ImportPartners == \E b \in CompanyBatches : DoImportPartners(b)

Next == ImportEntities \/ ImportPeople \/ ImportPartners

Spec == Init /\ [][Next]_vars

OnePerKey(nodes, key) ==
  \A x \in nodes : \A y \in nodes : x[key] = y[key] => x = y

OnePerPair(rels) ==
  \A r \in rels : \A q \in rels : (r.src = q.src /\ r.dst = q.dst) => r = q

\* C2: after any sequence of imports the graph holds at most one Entity
\* per entity_id, one Person per person_id, one Company per partner_id and
\* one Policy per name, and at most one relationship of a type between an
\* ordered pair of nodes.
C2_OneNodePerKeyOneEdgePerPair ==
  /\ OnePerKey(graph.Entity, "entity_id")
  /\ OnePerKey(graph.Person, "person_id")
  /\ OnePerKey(graph.Company, "partner_id")
  /\ OnePerKey(graph.Policy, "name")
  /\ OnePerPair(graph.REPORTS_TO)
  /\ OnePerPair(graph.WORKS_FOR)
  /\ OnePerPair(graph.PARTNERS_WITH)
  /\ OnePerPair(graph.ALIGNED_TO)

\* Every kind of node and relationship is there, the person has been
\* imported again under another name and another entity, and the
\* partnership again with another contract value.
C2_Witness ==
  /\ call = "import_partners"
  /\ \E x \in graph.Person : x.person_id = "P1" /\ x.name = "q"
  /\ Cardinality(graph.WORKS_FOR) = 2
  /\ \E r \in graph.PARTNERS_WITH : r.contract_value_rm = Num(200)
  /\ Cardinality(graph.Entity) = 2
  /\ graph.REPORTS_TO # {}
  /\ graph.ALIGNED_TO # {}


(***************************************************************************)
(* The load specification: the whole load sequence, import_entities, then  *)
(* import_people, then import_partners, on one batch of each kind.         *)
(***************************************************************************)
LEntityRows ==
  [entity_id : {"E1", "E2"}, name : {"n"}, parent_org : {"E1"},
   policy_alignment : {<<"a">>, NumCell}]

LEntityBatches == SeqsUpTo(LEntityRows, MaxRows)

LPeopleRows ==
  [person_id : {"P1"}, name : {"p"}, entity_id : {"E1"},
   role_type : {"Executive"}, focus_area : {<<"A", "I">>},
   confidence_score : {Num(5)}]

LPeopleBatches == SeqsUpTo(LPeopleRows, MaxRows)

LCompanyRows ==
  [partner_id : {"C1"}, company_name : {"c"}, entity_id : {"E1"},
   relationship_type : {"Vendor"},
   contract_value_rm : {Num(100)}, contract_year : {Num(2024)}]

LCompanyBatches == SeqsUpTo(LCompanyRows, MaxRows)

DoLoadToNeo4j(eb, pb, cb) ==
  LET r == LoadToNeo4jOp(graph, eb, pb, cb)
  IN  /\ graph' = r.g
      /\ ret' = r.ret
      /\ log' = r.log
      /\ call' = "load_to_neo4j"

LoadToNeo4j ==
  \E eb \in LEntityBatches : \E pb \in LPeopleBatches : \E cb \in LCompanyBatches :
    DoLoadToNeo4j(eb, pb, cb)

NextLoad == LoadToNeo4j

SpecLoad == Init /\ [][NextLoad]_vars

Counts(G) ==
  [Entity |-> Cardinality(G.Entity), Person |-> Cardinality(G.Person),
   Company |-> Cardinality(G.Company), Policy |-> Cardinality(G.Policy),
   REPORTS_TO |-> Cardinality(G.REPORTS_TO), WORKS_FOR |-> Cardinality(G.WORKS_FOR),
   PARTNERS_WITH |-> Cardinality(G.PARTNERS_WITH),
   ALIGNED_TO |-> Cardinality(G.ALIGNED_TO)]

\* C1: whatever the graph holds, running import_entities, import_people
\* and import_partners on an entity, a person and a partner batch twice in
\* a row leaves as many nodes of each kind and as many relationships of
\* each type as running them once.
C1_SecondImportKeepsCounts ==
  \A eb \in LEntityBatches : \A pb \in LPeopleBatches : \A cb \in LCompanyBatches :
    LET once == LoadToNeo4jOp(graph, eb, pb, cb).g
        twice == LoadToNeo4jOp(once, eb, pb, cb).g
    IN  Counts(twice) = Counts(once)

\* A load has put nodes of every kind and relationships of every type in
\* the graph, and loading the batches that give this graph from the empty
\* one a second time changes no count.
C1_Witness ==
  /\ call = "load_to_neo4j"
  /\ ret.exc = ""
  /\ \E eb \in LEntityBatches : \E pb \in LPeopleBatches : \E cb \in LCompanyBatches :
       /\ LoadToNeo4jOp(EmptyGraph, eb, pb, cb).g = graph
       /\ Counts(LoadToNeo4jOp(graph, eb, pb, cb).g) = Counts(graph)
       /\ Counts(graph).REPORTS_TO > 0
       /\ Counts(graph).WORKS_FOR > 0
       /\ Counts(graph).PARTNERS_WITH > 0
       /\ Counts(graph).ALIGNED_TO > 0


(***************************************************************************)
(* find_shortest_path_to_decision_maker.  shortestPath follows the         *)
(* relationships of every type in either direction, breadth first, and     *)
(* gives one shortest path for a pair of nodes; which of several shortest  *)
(* paths, and in which order the Person nodes are scanned, is up to the    *)
(* engine: rev is that choice.  Of a Person the model keeps no title.      *)
(***************************************************************************)
MaxHops == 5
MaxPaths == 5

Node(label, ref) == <<label, ref>>

\* Every relationship as the pair of nodes it joins.
Joined(G) ==
  {<<Node("Entity", r.src), Node("Entity", r.dst)>> : r \in G.REPORTS_TO}
    \cup {<<Node("Person", r.src), Node("Entity", r.dst)>> : r \in G.WORKS_FOR}
    \cup {<<Node("Company", r.src), Node("Entity", r.dst)>> : r \in G.PARTNERS_WITH}
    \cup {<<Node("Entity", r.src), Node("Policy", r.dst)>> : r \in G.ALIGNED_TO}

Nbrs(G, v) ==
  {e[2] : e \in {f \in Joined(G) : f[1] = v}}
    \cup {e[1] : e \in {f \in Joined(G) : f[2] = v}}

Reverse(s) == [i \in 1..Len(s) |-> s[Len(s) + 1 - i]]

Ordered(S, rev) == IF rev THEN Reverse(SetToSeq(S)) ELSE SetToSeq(S)

\* One level of the search: every path of the frontier, in turn, is
\* extended to each neighbour of its end that no path has reached.
RECURSIVE ExtendLevel(_, _, _, _)
ExtendLevel(G, front, seen, rev) ==
  IF front = <<>> THEN <<>>
  ELSE LET p == Head(front)
           new == Ordered(Nbrs(G, p[Len(p)]) \ seen, rev)
       IN  [i \in 1..Len(new) |-> Append(p, new[i])]
             \o ExtendLevel(G, Tail(front), seen \cup Range(new), rev)

\* The paths found within the given number of hops, shortest first.
RECURSIVE Search(_, _, _, _, _)
Search(G, front, seen, hops, rev) ==
  IF hops = 0 \/ front = <<>> THEN <<>>
  ELSE LET next == ExtendLevel(G, front, seen, rev)
       IN  next \o Search(G, next, seen \cup {q[Len(q)] : q \in Range(next)},
                          hops - 1, rev)

UpperCase ==
  <<"A", "B", "C", "D", "E", "F", "G", "H", "I", "J", "K", "L", "M",
    "N", "O", "P", "Q", "R", "S", "T", "U", "V", "W", "X", "Y", "Z">>
LowerCase ==
  <<"a", "b", "c", "d", "e", "f", "g", "h", "i", "j", "k", "l", "m",
    "n", "o", "p", "q", "r", "s", "t", "u", "v", "w", "x", "y", "z">>

ToLowerChar(c) ==
  IF \E k \in 1..26 : UpperCase[k] = c
  THEN LowerCase[CHOOSE k \in 1..26 : UpperCase[k] = c]
  ELSE c

ToLower(s) == [i \in 1..Len(s) |-> ToLowerChar(s[i])]

Contains(s, sub) ==
  \E i \in 0..(Len(s) - Len(sub)) : SubSeq(s, i + 1, i + Len(sub)) = sub

DecisionRoles == {"Political", "Executive"}

\* WHERE toLower(target.focus_area) CONTAINS toLower($target_focus)
\*   AND target.role_type IN ['Political', 'Executive']
Targets(G, focus) ==
  {x \in G.Person : /\ Contains(ToLower(x.focus_area), ToLower(focus))
                    /\ x.role_type \in DecisionRoles}

PersonOf(G, ref) == CHOOSE x \in G.Person : PersonRef(x) = ref

\* The CASE of the RETURN clause: it has a branch for Entity and for
\* Person, and gives null for a node of another label.
RenderNode(G, v) ==
  CASE v[1] = "Entity" -> [type |-> "Entity", name |-> EntityOf(G, v[2]).name]
    [] v[1] = "Person" -> [type |-> "Person", name |-> PersonOf(G, v[2]).name]
    [] OTHER -> [type |-> "null", name |-> "null"]

PathRow(G, q) ==
  [path |-> [i \in 1..Len(q) |-> RenderNode(G, q[i])], hops |-> Len(q) - 1]

\* A defect: no ORDER BY, the rows stay in the order they are found.
KeepOrder(rows) == rows

\* ORDER BY hops: rows of equal hops stay in the order they are found.
RECURSIVE SortByHops(_)
SortByHops(rows) ==
  IF rows = <<>> THEN <<>>
  ELSE LET least == CHOOSE i \in 1..Len(rows) :
                      /\ \A j \in 1..Len(rows) : rows[i].hops <= rows[j].hops
                      /\ \A j \in 1..(i - 1) : rows[j].hops > rows[i].hops
       IN  <<rows[least]>>
             \o SortByHops([j \in 1..(Len(rows) - 1) |->
                              IF j < least THEN rows[j] ELSE rows[j + 1]])

Limit(rows, n) == SubSeq(rows, 1, IF Len(rows) < n THEN Len(rows) ELSE n)

\* The rows of one start node: one for each target a path reaches.
RowsFrom(G, s, focus, rev) ==
  LET found == Search(G, <<<<s>>>>, {s}, MaxHops, rev)
      ts == Ordered({Node("Person", PersonRef(x)) : x \in Targets(G, focus)}, rev)
      RECURSIVE Rows(_)
      Rows(k) ==
        IF k > Len(ts) THEN <<>>
        ELSE LET hit == SelectSeq(found, LAMBDA q : q[Len(q)] = ts[k])
             IN  (IF hit = <<>> THEN <<>> ELSE <<PathRow(G, hit[1])>>) \o Rows(k + 1)
  IN  Rows(1)

FindShortestPathOp(G, start_entity_id, target_focus, rev) ==
  LET starts == Ordered({Node("Entity", EntityRef(x)) :
                           x \in MatchEntity(G, start_entity_id)}, rev)
      RECURSIVE All(_)
      All(k) == IF k > Len(starts) THEN <<>>
                ELSE RowsFrom(G, starts[k], target_focus, rev) \o All(k + 1)
  IN  Returned(Limit(SortByHops(All(1)), MaxPaths))


(***************************************************************************)
(* The path specification.  The graphs are those the imports build from    *)
(* the empty graph on: a chain of entities E1 <- E2 <- ... cut after a     *)
(* chosen entity, with or without a shortcut (a policy shared by E1 and    *)
(* E4, a company partnering with E1 and E6), and six people laid out       *)
(* over the entities, one of whom may have another role or focus area.     *)
(***************************************************************************)
PathEntityIds == <<"E1", "E2", "E3", "E4", "E5", "E6">>
PathPersonIds == <<"P1", "P2", "P3", "P4", "P5", "P6">>

PathEntityIndexes == DOMAIN PathEntityIds
PathPersonIndexes == DOMAIN PathPersonIds

Layouts ==
  {<<"E1", "E1", "E1", "E1", "E1", "E1">>,
   <<"E1", "E2", "E3", "E4", "E5", "E6">>,
   <<"E2", "E2", "E2", "E6", "E6", "E6">>}

\* The entities in a chain up to the cut; with shared, E1 and E4 are
\* aligned to the same policy.
ChainBatch(cut, shared) ==
  [i \in PathEntityIndexes |->
     [entity_id |-> PathEntityIds[i], name |-> "n",
      parent_org |-> IF 1 < i /\ i <= cut THEN PathEntityIds[i - 1] ELSE NaN,
      policy_alignment |-> IF shared /\ i \in {1, 4} THEN <<"a">> ELSE NaNText]]

PathPeopleBatch(layout, role, focus) ==
  [i \in PathPersonIndexes |->
     [person_id |-> PathPersonIds[i], name |-> PathPersonIds[i],
      entity_id |-> layout[i],
      role_type |-> IF i = 1 THEN role
                    ELSE IF i % 2 = 0 THEN "Political" ELSE "Executive",
      focus_area |-> IF i = 1 THEN focus
                     ELSE IF i % 2 = 0 THEN <<"A", "I">> ELSE <<"a", "i", "x">>,
      confidence_score |-> Num(5)]]

\* With partner, one company partners with E1 and with E6.
PathPartnerBatch(partner) ==
  IF ~partner THEN <<>>
  ELSE <<[partner_id |-> "C1", company_name |-> "c", entity_id |-> "E1",
          relationship_type |-> "Vendor",
          contract_value_rm |-> Num(100), contract_year |-> Num(2024)],
         [partner_id |-> "C1", company_name |-> "c", entity_id |-> "E6",
          relationship_type |-> "Vendor",
          contract_value_rm |-> Num(100), contract_year |-> Num(2024)]>>

PathEntityGraphs ==
  {ImportEntitiesOp(EmptyGraph, ChainBatch(t[1], t[2])).g :
     t \in PathEntityIndexes \X BOOLEAN}

PathPeopleGraphs ==
  {ImportPeopleOp(t[1], PathPeopleBatch(t[2], t[3], t[4])).g :
     t \in PathEntityGraphs \X Layouts \X {"Executive", "Technical"}
             \X {<<"A", "I">>, <<"x">>}}

PathGraphs ==
  {ImportPartnersOp(t[1], PathPartnerBatch(t[2])).g :
     t \in PathPeopleGraphs \X BOOLEAN}

PathInit ==
  /\ graph \in PathGraphs
  /\ call = "init"
  /\ ret = Returned("None")
  /\ log = <<>>

PathStarts == {"E1", "E3", "E9"}
PathFocus == {<<"A", "i">>, <<"x">>}

PFindShortestPath ==
  \E start \in PathStarts : \E focus \in PathFocus : \E rev \in BOOLEAN :
    /\ ret' = FindShortestPathOp(graph, start, focus, rev)
    /\ call' = "find_shortest_path_to_decision_maker"
    /\ log' = <<>>
    /\ UNCHANGED graph

NextPath == PFindShortestPath

SpecPath == PathInit /\ [][NextPath]_vars

\* The nodes within k hops of the nodes of S.
RECURSIVE Ball(_, _, _)
Ball(G, S, k) ==
  IF k = 0 THEN S ELSE Ball(G, S \cup UNION {Nbrs(G, v) : v \in S}, k - 1)

\* The least number of hops from s to t, up to limit; limit + 1 beyond it.
Dist(G, s, t, limit) ==
  IF t \notin Ball(G, {s}, limit) THEN limit + 1
  ELSE CHOOSE k \in 0..limit :
         /\ t \in Ball(G, {s}, k)
         /\ \A j \in 0..(k - 1) : t \notin Ball(G, {s}, j)

\* The hops from the start entity to the person of that name, a name
\* being that of one person only.
DistToNamed(G, start, name, limit) ==
  LET s == CHOOSE x \in G.Entity : x.entity_id = start
      t == CHOOSE x \in G.Person : x.name = name
  IN  Dist(G, Node("Entity", EntityRef(s)), Node("Person", PersonRef(t)), limit)

\* C9: every path find_shortest_path_to_decision_maker reports has as
\* many hops as the breadth-first distance from the start entity to its
\* target, and at most 5; it ends at a matching person; at most 5 paths
\* come back, in non-decreasing order of hops; and nothing comes back
\* exactly when no matching person is within 5 hops of the start.
C9_HopsAreBreadthFirstDistance ==
  \A start \in PathStarts : \A focus \in PathFocus : \A rev \in BOOLEAN :
    LET r == FindShortestPathOp(graph, start, focus, rev)
        rows == r.val
        near == {x \in Targets(graph, focus) :
                   /\ MatchEntity(graph, start) # {}
                   /\ DistToNamed(graph, start, x.name, 5) <= 5}
    IN  /\ r.exc = ""
        /\ Len(rows) <= 5
        /\ \A i \in 1..Len(rows) :
             LET last == rows[i].path[Len(rows[i].path)]
             IN  /\ last.type = "Person"
                 /\ \E x \in Targets(graph, focus) : x.name = last.name
                 /\ rows[i].hops = DistToNamed(graph, start, last.name, 5)
                 /\ rows[i].hops <= 5
                 /\ Len(rows[i].path) = rows[i].hops + 1
        /\ \A i \in 1..(Len(rows) - 1) : rows[i].hops <= rows[i + 1].hops
        /\ (rows = <<>>) = (near = {})

\* The query has returned four paths of 2, 3, 4 and 5 hops, the first
\* a 2-hop connection with none shorter, while a fifth matching person
\* is 6 hops from the start and so is not reported.
C9_Witness ==
  /\ call = "find_shortest_path_to_decision_maker"
  /\ ret.exc = ""
  /\ Len(ret.val) = 4
  /\ [i \in 1..4 |-> ret.val[i].hops] = <<2, 3, 4, 5>>
  /\ Cardinality(Targets(graph, <<"A", "i">>)) = 5
  /\ \E x \in Targets(graph, <<"A", "i">>) :
       DistToNamed(graph, "E1", x.name, 6) = 6


(***************************************************************************)
(* Neo4jLoader (src/neo4j_loader.py): the second loader, with its own      *)
(* schema.  Its nodes are keyed by the property id.  A frame is its rows   *)
(* and whether it has an id column at all; row.get('id', '') is '' when    *)
(* it has none, and str() of a missing cell is the text nan.               *)
(***************************************************************************)
LoaderEmptyGraph == [Entity |-> {}, Person |-> {}]

\* str(v): a missing cell reads as the float NaN, whose str is 'nan'.
PyStr(v) == IF v = NaN THEN "nan" ELSE v

\* str(row.get('id', ''))
RowGetId(frame, row) == IF frame.id_column THEN PyStr(row.id) ELSE PyStr("")

\* MERGE (e {id: $id}) SET e.name = $name
LoaderMergeRow(nodes, id, name) ==
  LET m == {x \in nodes : x.id = id}
  IN  IF m = {} THEN nodes \cup {[id |-> id, n |-> 0, name |-> name]}
      ELSE (nodes \ m) \cup {[x EXCEPT !.name = name] : x \in m}

RECURSIVE LoaderMergeRows(_, _, _)
LoaderMergeRows(nodes, frame, k) ==
  IF k > Len(frame.rows) THEN nodes
  ELSE LoaderMergeRows(
         LoaderMergeRow(nodes, RowGetId(frame, frame.rows[k]), PyStr(frame.rows[k].name)),
         frame, k + 1)

\* load_entities: one MERGE per row of the frame, whatever the row holds.
LoadEntitiesOp(G, frame) ==
  [g |-> [G EXCEPT !.Entity = LoaderMergeRows(@, frame, 1)],
   log |-> <<[msg |-> "Loaded entities", n |-> Len(frame.rows)]>>,
   ret |-> Returned("None")]

\* load_people: the same for Person.
LoadPeopleOp(G, frame) ==
  [g |-> [G EXCEPT !.Person = LoaderMergeRows(@, frame, 1)],
   log |-> <<[msg |-> "Loaded people", n |-> Len(frame.rows)]>>,
   ret |-> Returned("None")]

LoaderRows == [id : {"1", NaN}, name : {"n", NaN}]

LoaderFrames == [id_column : BOOLEAN, rows : SeqsUpTo(LoaderRows, MaxRows)]

LoaderInit ==
  /\ graph = LoaderEmptyGraph
  /\ call = "init"
  /\ ret = Returned("None")
  /\ log = <<>>

LoadEntities ==
  \E frame \in LoaderFrames :
    LET r == LoadEntitiesOp(graph, frame)
    IN  /\ graph' = r.g
        /\ ret' = r.ret
        /\ log' = r.log
        /\ call' = "load_entities"

LoadPeople ==
  \E frame \in LoaderFrames :
    LET r == LoadPeopleOp(graph, frame)
    IN  /\ graph' = r.g
        /\ ret' = r.ret
        /\ log' = r.log
        /\ call' = "load_people"

NextLoader == LoadEntities \/ LoadPeople

SpecLoader == LoaderInit /\ [][NextLoader]_vars

MissingKeys == {"", "nan", "None", NaN}

\* C11: no load ever leaves a node whose identity key is null, empty or
\* the text of a missing value: a row without its id is dropped before
\* the graph is written.
C11_NoNodeWithMissingKey ==
  \A x \in graph.Entity \cup graph.Person : x.id \notin MissingKeys


(***************************************************************************)
(* Neo4jConnector.get_graph_statistics, the most connected nodes, called   *)
(* without a label filter.  The query orders by the number of connections  *)
(* only; the order of nodes with as many connections is the order in which *)
(* the engine scans them, which rev stands for.                            *)
(***************************************************************************)
MaxRanked == 10

AllNodes(G) ==
  {Node("Entity", EntityRef(x)) : x \in G.Entity}
    \cup {Node("Person", PersonRef(x)) : x \in G.Person}
    \cup {Node("Company", CompanyRef(x)) : x \in G.Company}
    \cup {Node("Policy", PolicyRef(x)) : x \in G.Policy}

\* OPTIONAL MATCH (n)-[r]-() WITH n, count(r) as connections
Connections(G, v) == Cardinality({e \in Joined(G) : e[1] = v \/ e[2] = v})

NameOf(G, v) ==
  CASE v[1] = "Entity" -> EntityOf(G, v[2]).name
    [] v[1] = "Person" -> PersonOf(G, v[2]).name
    [] v[1] = "Company" -> (CHOOSE x \in G.Company : CompanyRef(x) = v[2]).name
    [] OTHER -> (CHOOSE x \in G.Policy : PolicyRef(x) = v[2]).name

\* ORDER BY connections DESC: rows of as many connections stay as scanned.
RECURSIVE SortByConnections(_)
SortByConnections(rows) ==
  IF rows = <<>> THEN <<>>
  ELSE LET most == CHOOSE i \in 1..Len(rows) :
                     /\ \A j \in 1..Len(rows) : rows[i].connections >= rows[j].connections
                     /\ \A j \in 1..(i - 1) : rows[j].connections < rows[i].connections
       IN  <<rows[most]>>
             \o SortByConnections([j \in 1..(Len(rows) - 1) |->
                                     IF j < most THEN rows[j] ELSE rows[j + 1]])

MostConnectedAmong(G, nodes, rev) ==
  LET scan == Ordered(nodes, rev)
      rows == [k \in 1..Len(scan) |->
                 [name |-> NameOf(G, scan[k]), type |-> scan[k][1],
                  connections |-> Connections(G, scan[k])]]
      linked == SelectSeq(rows, LAMBDA r : r.connections > 0)
  IN  Limit(SortByConnections(linked), MaxRanked)

MostConnectedOp(G, rev) == Returned(MostConnectedAmong(G, AllNodes(G), rev))

(***************************************************************************)
(* The ranking specification: entities and people of different names, no   *)
(* policies, no entity its own parent.                                     *)
(***************************************************************************)
REntityRows ==
  {[entity_id |-> e, name |-> e, parent_org |-> p, policy_alignment |-> NaNText] :
     e \in {"E1", "E2"}, p \in {NaN, "E1"}} \
  {[entity_id |-> "E1", name |-> "E1", parent_org |-> "E1", policy_alignment |-> NaNText]}

REntityBatches == SeqsUpTo(REntityRows, MaxRows)

RPersonRows ==
  {[person_id |-> q, name |-> q, entity_id |-> e, role_type |-> "Executive",
    focus_area |-> <<"A", "I">>, confidence_score |-> Num(5)] :
     q \in {"P1", "P2"}, e \in {"E1", "E2"}}

RPersonBatches == SeqsUpTo(RPersonRows, MaxRows)

RImportEntities == \E b \in REntityBatches : DoImportEntities(b)

RImportPeople == \E b \in RPersonBatches : DoImportPeople(b)

RMostConnected ==
  \E rev \in BOOLEAN :
    /\ ret' = MostConnectedOp(graph, rev)
    /\ call' = "get_graph_statistics.most_connected"
    /\ log' = <<>>
    /\ UNCHANGED graph

NextRank == RImportEntities \/ RImportPeople \/ RMostConnected

SpecRank == Init /\ [][NextRank]_vars

\* C12: on a graph that does not change, two successive calls of the
\* most-connected ranking return the same list in the same order, also
\* when several nodes have as many connections.
C12_RankingRepeatsExactly ==
  [][(/\ call = "get_graph_statistics.most_connected"
      /\ call' = "get_graph_statistics.most_connected")
       => ret' = ret]_vars


(***************************************************************************)
(* GovernmentVectorSearch (src/vector_search_system.py).  In the index     *)
(* specification graph holds the three collections of the vector store.    *)
(* A collection is a set of documents, each under an id.  The index        *)
(* methods call collection.add: add rejects a batch that repeats an id,    *)
(* and for an id the collection already holds it either raises or leaves   *)
(* the stored document as it is, depending on the release of the store:    *)
(* onExisting is that choice.  Only upsert would overwrite.                *)
(***************************************************************************)
EmptyStore == [entities |-> {}, people |-> {}, partners |-> {}]

\* f"entity_{row['entity_id']}"
DocId(prefix, key) == <<prefix, key>>

\* _create_entity_document and its like: the text made of the row's fields.
DocOf(row) == [id |-> DocId(row.kind, row.key), document |-> row.name]

BatchIds(batch) == [k \in 1..Len(batch) |-> DocOf(batch[k]).id]

RepeatsId(batch) ==
  \E j \in 1..Len(batch) : \E k \in 1..Len(batch) :
    j # k /\ BatchIds(batch)[j] = BatchIds(batch)[k]

\* collection.add(documents, metadatas, ids)
CollectionAdd(coll, batch, onExisting) ==
  LET held == {d.id : d \in coll}
      fresh == {DocOf(batch[k]) : k \in {j \in 1..Len(batch) : BatchIds(batch)[j] \notin held}}
  IN  IF RepeatsId(batch) THEN [c |-> coll, ret |-> Raised("DuplicateIDError")]
      ELSE IF Range(BatchIds(batch)) \cap held # {} /\ onExisting = "raise"
      THEN [c |-> coll, ret |-> Raised("IDAlreadyExistsError")]
      ELSE [c |-> coll \cup fresh, ret |-> Returned("None")]

\* index_entities, index_people, index_partners: one add of the whole batch.
IndexOp(S, name, batch, onExisting) ==
  LET a == CollectionAdd(S[name], batch, onExisting)
  IN  [g |-> [S EXCEPT ![name] = a.c],
       log |-> <<[msg |-> "Indexing", n |-> Len(batch)]>>
                 \o (IF a.ret.exc = "" THEN <<[msg |-> "Indexed", n |-> Len(batch)]>>
                     ELSE <<>>),
       ret |-> a.ret]

IndexRows(kind, keys) == [kind : {kind}, key : keys, name : {"n", "m"}]

IndexBatches(kind, keys) == SeqsUpTo(IndexRows(kind, keys), MaxRows) \ {<<>>}

OnExisting == {"raise", "ignore"}

StoreInit ==
  /\ graph = EmptyStore
  /\ call = "init"
  /\ ret = Returned("None")
  /\ log = <<>>

DoIndex(name, batch, onExisting) ==
  LET r == IndexOp(graph, name, batch, onExisting)
  IN  /\ graph' = r.g
      /\ ret' = r.ret
      /\ log' = r.log
      /\ call' = "index_" \o name

IndexEntities ==
  \E b \in IndexBatches("entity_", {"E1", "E2"}) : \E o \in OnExisting :
    DoIndex("entities", b, o)

IndexPeople ==
  \E b \in IndexBatches("person_", {"P1"}) : \E o \in OnExisting :
    DoIndex("people", b, o)

IndexPartners ==
  \E b \in IndexBatches("partner_", {"C1"}) : \E o \in OnExisting :
    DoIndex("partners", b, o)

NextIndex == IndexEntities \/ IndexPeople \/ IndexPartners

SpecIndex == StoreInit /\ [][NextIndex]_vars

\* The document the batch carries last for an id.
LastOf(batch, id) ==
  LET k == CHOOSE j \in 1..Len(batch) :
             /\ BatchIds(batch)[j] = id
             /\ \A h \in (j + 1)..Len(batch) : BatchIds(batch)[h] # id
  IN  DocOf(batch[k])

\* C13: indexing a batch some of whose ids the collection already holds
\* does not fail, and afterwards the collection holds one document for
\* each id of the batch, with the content indexed last.
C13_ReindexingOverwrites ==
  [][\A b \in IndexBatches("entity_", {"E1", "E2"}) : \A o \in OnExisting :
       LET r == IndexOp(graph, "entities", b, o)
       IN  (/\ call' = "index_entities"
            /\ graph' = r.g
            /\ ret' = r.ret
            /\ Range(BatchIds(b)) \cap {d.id : d \in graph.entities} # {})
             => /\ ret'.exc = ""
                /\ \A id \in Range(BatchIds(b)) :
                     {d \in graph'.entities : d.id = id} = {LastOf(b, id)}]_vars


(***************************************************************************)
(* Further properties of the hierarchy specification.                      *)
(***************************************************************************)

\* C14: a catalogue query that matches nothing returns an empty
\* collection and does not raise; here get_entity_hierarchy, also for an
\* entity_id that is not in the graph.
C14_EmptyResultNeverRaises ==
  call = "get_entity_hierarchy" => ret.exc = ""

RECURSIVE ReachesIn(_, _, _, _)
\* y is reached from x by one to k REPORTS_TO edges.
ReachesIn(P, x, y, k) ==
  IF k = 0 THEN FALSE
  ELSE \/ <<x, y>> \in P
       \/ \E z \in {p[2] : p \in {q \in P : q[1] = x}} : ReachesIn(P, z, y, k - 1)

\* C17: the REPORTS_TO edges are acyclic: no entity reaches itself by
\* following one or more of them.
C17_ReportsToAcyclic ==
  \A x \in EntityIdsOf(graph) :
    ~ReachesIn(ReportsToPairs(graph), x, x, Cardinality(EntityIdsOf(graph)))


(***************************************************************************)
(* A further property of the people specification.                         *)
(***************************************************************************)

\* C16: after any sequence of import_entities and import_people calls
\* every Person node has exactly one outgoing WORKS_FOR relationship.
C16_ExactlyOneWorksForPerPerson ==
  \A p \in graph.Person :
    Cardinality({r \in graph.WORKS_FOR : r.src = PersonRef(p)}) = 1


(***************************************************************************)
(* Schema declaration (create_constraints of GovernmentKnowledgeGraph and  *)
(* of Neo4jLoader).  In the schema specification graph holds the declared  *)
(* constraints and indexes.  CREATE ... IF NOT EXISTS declares nothing     *)
(* when a declaration of that name, or of that kind on that label and      *)
(* property, exists.  A statement can still fail (the engine is            *)
(* unreachable, stored data break the constraint): failing is the set of   *)
(* statements that fail in one call.                                       *)
(***************************************************************************)
Decl(name, kind, label, prop) ==
  [name |-> name, kind |-> kind, label |-> label, prop |-> prop]

Constraints ==
  << Decl("entity_id", "unique", "Entity", "entity_id"),
     Decl("person_id", "unique", "Person", "person_id"),
     Decl("company_id", "unique", "Company", "partner_id"),
     Decl("policy_name", "unique", "Policy", "name"),
     Decl("entity_name", "index", "Entity", "name"),
     Decl("person_name", "index", "Person", "name"),
     Decl("company_name", "index", "Company", "name") >>

LoaderConstraints ==
  << Decl("entity_id", "unique", "Entity", "id"),
     Decl("person_id", "unique", "Person", "id"),
     Decl("partner_id", "unique", "Partner", "id") >>

Exists(schema, d) ==
  \E e \in schema :
    \/ e.name = d.name
    \/ e.kind = d.kind /\ e.label = d.label /\ e.prop = d.prop

\* session.run(constraint)
Declare(schema, d) == IF Exists(schema, d) THEN schema ELSE schema \cup {d}

RECURSIVE DeclareUpTo(_, _, _, _)
\* The schema after the first k statements, those in failing left out.
DeclareUpTo(schema, constraints, failing, k) ==
  IF k = 0 THEN schema
  ELSE LET before == DeclareUpTo(schema, constraints, failing, k - 1)
       IN  IF constraints[k] \in failing THEN before
           ELSE Declare(before, constraints[k])

Outcome(d, failing) ==
  [msg |-> IF d \in failing THEN "Constraint might already exist" ELSE "Created",
   name |-> d.name]

\* The loop without its try/except: the first failing statement ends the call.
CreateConstraintsUncaught(schema, constraints, failing) ==
  LET bad == {k \in DOMAIN constraints : constraints[k] \in failing}
      stop == IF bad = {} THEN Len(constraints)
              ELSE (CHOOSE k \in bad : \A j \in bad : k <= j) - 1
  IN  [g |-> [schema |-> DeclareUpTo(schema, constraints, failing, stop)],
       log |-> [k \in 1..stop |-> Outcome(constraints[k], failing)],
       ret |-> IF bad = {} THEN Returned("None") ELSE Raised("Neo4jError")]

\* for constraint in constraints: try: session.run(constraint) except Exception: warn
CreateConstraintsOp(schema, constraints, failing) ==
  [g |-> [schema |-> DeclareUpTo(schema, constraints, failing, Len(constraints))],
   log |-> [k \in DOMAIN constraints |-> Outcome(constraints[k], failing)],
   ret |-> Returned("None")]

MaxFailing == 1

FailingSets(constraints) ==
  {F \in SUBSET Range(constraints) : Cardinality(F) <= MaxFailing}

\* A graph on which any subset of the constraints and indexes is declared.
SchemaInit ==
  /\ graph \in [schema : SUBSET Range(Constraints)]
  /\ call = "init"
  /\ ret = Returned("None")
  /\ log = <<>>

DoCreateConstraints(constraints, failing, name) ==
  LET r == CreateConstraintsOp(graph.schema, constraints, failing)
  IN  /\ graph' = r.g
      /\ ret' = r.ret
      /\ log' = r.log
      /\ call' = name

CreateConstraints ==
  \E F \in FailingSets(Constraints) :
    DoCreateConstraints(Constraints, F, "create_constraints")

LoaderCreateConstraints ==
  \E F \in FailingSets(LoaderConstraints) :
    DoCreateConstraints(LoaderConstraints, F, "loader.create_constraints")

NextSchema == CreateConstraints \/ LoaderCreateConstraints

SpecSchema == SchemaInit /\ [][NextSchema]_vars

Warned(lg) == \E k \in DOMAIN lg : lg[k].msg # "Created"

DeclaredByName(schema, name) == \E e \in schema : e.name = name

\* C15: create_constraints does not raise whatever is declared already;
\* every statement is attempted, and each one that does not fail leaves
\* its declaration in the schema, whichever statements failed before it;
\* once a call has gone through without a failure, a further call leaves
\* the declared schema as it is.
C15_CreateConstraintsIdempotent ==
  [][call' = "create_constraints" =>
       /\ ret'.exc = ""
       /\ Len(log') = Len(Constraints)
       /\ \A k \in DOMAIN log' :
            log'[k].msg = "Created" => DeclaredByName(graph'.schema, log'[k].name)
       /\ (call = "create_constraints" /\ ~Warned(log)) => graph' = graph]_vars

\* A call in which one statement failed and a later one was declared.
C15_Witness ==
  /\ call = "create_constraints"
  /\ \E j \in DOMAIN log : \E k \in DOMAIN log :
       /\ j < k
       /\ log[j].msg # "Created"
       /\ log[k].msg = "Created"
       /\ DeclaredByName(graph.schema, log[k].name)
       /\ ~DeclaredByName(graph.schema, log[j].name)


(***************************************************************************)
(* Neo4jConnector: the statements get_full_graph_data and                  *)
(* get_graph_statistics send to the engine.  A statement is its text, a    *)
(* sequence of pieces, and its bound parameters.  The pieces an f-string   *)
(* takes from the caller are the characters Python formats the value to.   *)
(* In the connector specification log holds the statements of the call.    *)
(***************************************************************************)
RECURSIVE IntStr(_)
\* str(n) of a natural number
IntStr(n) == IF n < 10 THEN <<Digits[n + 1]>> ELSE IntStr(n \div 10) \o <<Digits[(n % 10) + 1]>>

RECURSIVE ListRepr(_)
\* The items of repr(list of str): 'a', 'b'
ListRepr(labels) ==
  IF labels = <<>> THEN <<>>
  ELSE <<"'", Head(labels), "'">>
         \o (IF Tail(labels) = <<>> THEN <<>> ELSE <<", ">> \o ListRepr(Tail(labels)))

\* label_filter = f"WHERE labels(n)[0] IN {filter_labels}" if filter_labels else ""
LabelFilter(filter_labels) ==
  IF filter_labels = <<>> THEN <<>>
  ELSE <<"WHERE labels(n)[0] IN ", "[">> \o ListRepr(filter_labels) \o <<"]">>

\* limit_clause = f"LIMIT {limit}" if limit else ""
LimitClause(limit) == IF limit = 0 THEN <<>> ELSE <<"LIMIT ">> \o IntStr(limit)

NoParams == [n \in {} |-> n]

Statement(text, params) == [text |-> text, params |-> params]

Filtered(G, filter_labels) ==
  {v \in AllNodes(G) : filter_labels = <<>> \/ v[1] \in Range(filter_labels)}

\* get_full_graph_data(limit, filter_labels): the nodes, at most limit of
\* them as the engine scans them, and the relationships among them.
GetFullGraphDataOp(G, limit, filter_labels, rev) ==
  LET nodes == Limit(Ordered(Filtered(G, filter_labels), rev), limit)
      node_ids == Range(nodes)
      rels == {e \in Joined(G) : e[1] \in node_ids /\ e[2] \in node_ids}
  IN  [ret |-> Returned([nodes |-> nodes, relationships |-> rels]),
       log |-> << Statement(<<"MATCH (n) ">> \o LabelFilter(filter_labels)
                              \o <<" RETURN id(n) as id, labels(n)[0] as label, n.name as name, properties(n) as properties LIMIT ">>
                              \o IntStr(limit),
                            NoParams),
                  Statement(<<"MATCH (n)-[r]->(m) WHERE id(n) IN $node_ids AND id(m) IN $node_ids RETURN id(n) as source, id(m) as target, type(r) as relationship, properties(r) as properties">>,
                            [node_ids |-> nodes]) >>]

RelType(e) ==
  CASE e[1][1] = "Person" -> "WORKS_FOR"
    [] e[1][1] = "Company" -> "PARTNERS_WITH"
    [] e[2][1] = "Policy" -> "ALIGNED_TO"
    [] OTHER -> "REPORTS_TO"

\* RETURN labels(n)[0] as type, count(n) as count
NodeTypes(nodes) ==
  [t \in {v[1] : v \in nodes} |-> Cardinality({v \in nodes : v[1] = t})]

\* RETURN type(r) as type, count(r) as count
RelationshipTypes(rels) ==
  [t \in {RelType(e) : e \in rels} |-> Cardinality({e \in rels : RelType(e) = t})]

\* get_graph_statistics(filter_labels, limit); limit 0 stands for no limit.
GetGraphStatisticsQueryOp(G, filter_labels, limit, rev) ==
  LET nodes == Filtered(G, filter_labels)
      rels == {e \in Joined(G) : e[1] \in nodes}
      f == LabelFilter(filter_labels)
      l == LimitClause(limit)
  IN  [ret |-> Returned([total_nodes |-> Cardinality(nodes),
                         total_relationships |-> Cardinality(rels),
                         node_types |-> NodeTypes(nodes),
                         relationship_types |-> RelationshipTypes(rels),
                         most_connected |-> MostConnectedAmong(G, nodes, rev)]),
       log |-> << Statement(<<"MATCH (n) ">> \o f \o <<" RETURN count(n) as count ">> \o l, NoParams),
                  Statement(<<"MATCH (n)-[r]->() ">> \o f \o <<" RETURN count(r) as count ">> \o l, NoParams),
                  Statement(<<"MATCH (n) ">> \o f
                              \o <<" RETURN labels(n)[0] as type, count(n) as count ORDER BY count DESC">>, NoParams),
                  Statement(<<"MATCH (n)-[r]->() ">> \o f
                              \o <<" RETURN type(r) as type, count(r) as count ORDER BY count DESC">>, NoParams),
                  Statement(<<"MATCH (n) ">> \o f
                              \o <<" OPTIONAL MATCH (n)-[r]-() WITH n, count(r) as connections WHERE connections > 0 RETURN n.name as name, labels(n)[0] as type, connections ORDER BY connections DESC LIMIT 10">>,
                            NoParams) >>]

FilterLabels == {<<>>, <<"Entity">>, <<"Person">>, <<"Entity", "Person">>}

DefaultLimit == 200

Limits == {1, DefaultLimit}

StatisticsLimits == {0, 1}

CGetFullGraphData ==
  \E limit \in Limits : \E filter_labels \in FilterLabels : \E rev \in BOOLEAN :
    LET r == GetFullGraphDataOp(graph, limit, filter_labels, rev)
    IN  /\ ret' = r.ret
        /\ log' = r.log
        /\ call' = "get_full_graph_data"
        /\ UNCHANGED graph

CGetGraphStatistics ==
  \E filter_labels \in FilterLabels : \E limit \in StatisticsLimits : \E rev \in BOOLEAN :
    LET r == GetGraphStatisticsQueryOp(graph, filter_labels, limit, rev)
    IN  /\ ret' = r.ret
        /\ log' = r.log
        /\ call' = "get_graph_statistics"
        /\ UNCHANGED graph

CEntityBatches == SeqsUpTo({r \in REntityRows : r.entity_id = "E1" \/ r.parent_org = "E1"}, 1)

CPersonBatches == SeqsUpTo({r \in RPersonRows : r.person_id = "P1"}, 1)

CImportEntities == \E b \in CEntityBatches : DoImportEntities(b)

CImportPeople == \E b \in CPersonBatches : DoImportPeople(b)

NextConnector ==
  CImportEntities \/ CImportPeople \/ CGetFullGraphData \/ CGetGraphStatistics

SpecConnector == Init /\ [][NextConnector]_vars

TextsOf(lg) == [k \in DOMAIN lg |-> lg[k].text]

ConnectorQueries == {"get_full_graph_data", "get_graph_statistics"}

\* C18: every statement the connector sends is parameterized: two calls
\* of one operation send the same statement texts, whatever label filter
\* and limit the callers gave.
C18_QueryTextIndependentOfCallerData ==
  [][(call \in ConnectorQueries /\ call' = call)
       => TextsOf(log') = TextsOf(log)]_vars


(***************************************************************************)
(* Schema declaration when the engine cannot be reached.  graph holds the  *)
(* declared schema and whether the engine answered the last call.  When    *)
(* it does not, every session.run of the call raises ServiceUnavailable,   *)
(* an Exception like any other to the except clause of the loop.           *)
(***************************************************************************)
OutageInit ==
  /\ graph \in [schema : SUBSET Range(Constraints), reachable : {TRUE}]
  /\ call = "init"
  /\ ret = Returned("None")
  /\ log = <<>>

Unreachable(constraints, reachable, failing) ==
  IF reachable THEN failing ELSE Range(constraints)

DoCreateConstraintsOn(constraints, reachable, failing, name) ==
  LET r == CreateConstraintsOp(graph.schema, constraints,
                               Unreachable(constraints, reachable, failing))
  IN  /\ graph' = [schema |-> r.g.schema, reachable |-> reachable]
      /\ ret' = r.ret
      /\ log' = r.log
      /\ call' = name

OCreateConstraints ==
  \E reachable \in BOOLEAN : \E F \in FailingSets(Constraints) :
    DoCreateConstraintsOn(Constraints, reachable, F, "create_constraints")

OLoaderCreateConstraints ==
  \E reachable \in BOOLEAN : \E F \in FailingSets(LoaderConstraints) :
    DoCreateConstraintsOn(LoaderConstraints, reachable, F, "loader.create_constraints")

NextOutage == OCreateConstraints \/ OLoaderCreateConstraints

SpecOutage == OutageInit /\ [][NextOutage]_vars

\* C19: a core operation during which the engine cannot be reached ends
\* with an error for its caller; here the schema declaration.
C19_ConnectivityFailureSurfaces ==
  (call \in {"create_constraints", "loader.create_constraints"} /\ ~graph.reachable)
    => ret.exc # ""


(***************************************************************************)
(* GovernmentVectorSearch.answer_question.  A question is its characters.  *)
(* A search returns the documents nearest to the question, at most         *)
(* n_results of them; which are nearest is the embedding's matter, and rev *)
(* stands for the order it gives.  In the answer specification log holds   *)
(* the collection queries of the call.                                     *)
(***************************************************************************)
RoleWords ==
  { <<"w", "h", "o">>,
    <<"p", "e", "r", "s", "o", "n">>,
    <<"p", "e", "o", "p", "l", "e">>,
    <<"m", "i", "n", "i", "s", "t", "e", "r">>,
    <<"d", "i", "r", "e", "c", "t", "o", "r">> }

VendorWords ==
  { <<"c", "o", "m", "p", "a", "n", "y">>,
    <<"p", "a", "r", "t", "n", "e", "r">>,
    <<"v", "e", "n", "d", "o", "r">>,
    <<"c", "o", "n", "t", "r", "a", "c", "t", "o", "r">> }

OrgWords ==
  { <<"m", "i", "n", "i", "s", "t", "r", "y">>,
    <<"a", "g", "e", "n", "c", "y">>,
    <<"d", "e", "p", "a", "r", "t", "m", "e", "n", "t">>,
    <<"o", "r", "g", "a", "n", "i", "z", "a", "t", "i", "o", "n">> }

\* any(word in question_lower for word in words)
AnyWordIn(words, question_lower) == \E w \in words : Contains(question_lower, w)

SingleResults == 5

AllResults == 3

\* collection.query(query_texts=[query], n_results=n_results), formatted
SearchCollection(S, name, n_results, rev) == Limit(Ordered(S[name], rev), n_results)

Queried(name, n_results) == [collection |-> name, n_results |-> n_results]

\* _generate_simple_answer
SimpleAnswer(results) ==
  IF results = <<>> THEN <<"No matches found.">> ELSE <<"Found: ", results[1].id>>

\* _generate_answer
Answer(all) ==
  LET parts == (IF all.entities = <<>> THEN <<>> ELSE <<"Found entity: ", all.entities[1].id>>)
                 \o (IF all.people = <<>> THEN <<>> ELSE <<"Key person: ", all.people[1].id>>)
                 \o (IF all.partners = <<>> THEN <<>> ELSE <<"Related partner: ", all.partners[1].id>>)
  IN  IF parts = <<>> THEN <<"No direct matches found.">> ELSE parts

OneCategory(S, question, name, rev) ==
  LET results == SearchCollection(S, name, SingleResults, rev)
  IN  [ret |-> Returned([question |-> question, category |-> name,
                         results |-> results, answer |-> SimpleAnswer(results)]),
       log |-> <<Queried(name, SingleResults)>>]

AllCategories(S, question, rev) ==
  LET all == [entities |-> SearchCollection(S, "entities", AllResults, rev),
              people |-> SearchCollection(S, "people", AllResults, rev),
              partners |-> SearchCollection(S, "partners", AllResults, rev)]
  IN  [ret |-> Returned([question |-> question, answer |-> Answer(all), sources |-> all]),
       log |-> <<Queried("entities", AllResults), Queried("people", AllResults),
                 Queried("partners", AllResults)>>]

\* The router with the organisation words tried before the vendor words.
AnswerQuestionEntitiesFirst(S, question, rev) ==
  LET question_lower == ToLower(question)
  IN  IF AnyWordIn(RoleWords, question_lower) THEN OneCategory(S, question, "people", rev)
      ELSE IF AnyWordIn(OrgWords, question_lower) THEN OneCategory(S, question, "entities", rev)
      ELSE IF AnyWordIn(VendorWords, question_lower) THEN OneCategory(S, question, "partners", rev)
      ELSE AllCategories(S, question, rev)

\* The router matching whole words of the question only.
AnswerQuestionWholeWords(S, question, rev) ==
  LET asked == Range(SelectSeq(Split(ToLower(question), " "), LAMBDA w : w # <<>>))
  IN  IF RoleWords \cap asked # {} THEN OneCategory(S, question, "people", rev)
      ELSE IF VendorWords \cap asked # {} THEN OneCategory(S, question, "partners", rev)
      ELSE IF OrgWords \cap asked # {} THEN OneCategory(S, question, "entities", rev)
      ELSE AllCategories(S, question, rev)

AnswerQuestionOp(S, question, rev) ==
  LET question_lower == ToLower(question)
  IN  IF AnyWordIn(RoleWords, question_lower) THEN OneCategory(S, question, "people", rev)
      ELSE IF AnyWordIn(VendorWords, question_lower) THEN OneCategory(S, question, "partners", rev)
      ELSE IF AnyWordIn(OrgWords, question_lower) THEN OneCategory(S, question, "entities", rev)
      ELSE AllCategories(S, question, rev)

Vocabulary ==
  { <<"W", "h", "o">>,
    <<"w", "h", "o", "l", "e">>,
    <<"m", "i", "n", "i", "s", "t", "e", "r">>,
    <<"m", "i", "n", "i", "s", "t", "r", "y">>,
    <<"v", "e", "n", "d", "o", "r">>,
    <<"b", "u", "d", "g", "e", "t">> }

Questions == Vocabulary \cup {v \o <<" ">> \o w : v \in Vocabulary, w \in Vocabulary}

AIndexRows(kind, key) == [kind : {kind}, key : {key}, name : {"n"}]

AIndexEntities ==
  \E b \in SeqsUpTo(AIndexRows("entity_", "E1"), 1) \ {<<>>} : \E o \in OnExisting :
    DoIndex("entities", b, o)

AIndexPeople ==
  \E key \in {"P1", "P2"} : \E o \in OnExisting :
    DoIndex("people", <<[kind |-> "person_", key |-> key, name |-> "n"]>>, o)

AIndexPartners ==
  \E b \in SeqsUpTo(AIndexRows("partner_", "C1"), 1) \ {<<>>} : \E o \in OnExisting :
    DoIndex("partners", b, o)

AnswerQuestion ==
  \E question \in Questions : \E rev \in BOOLEAN :
    LET r == AnswerQuestionOp(graph, question, rev)
    IN  /\ ret' = r.ret
        /\ log' = r.log
        /\ call' = "answer_question"
        /\ UNCHANGED graph

NextAnswer == AIndexEntities \/ AIndexPeople \/ AIndexPartners \/ AnswerQuestion

SpecAnswer == StoreInit /\ [][NextAnswer]_vars

Searched(lg) == {lg[k].collection : k \in DOMAIN lg}

Asked == ToLower(ret.val.question)

AllCollections == {"entities", "people", "partners"}

\* C20 as the specification words it: a role word sends the question to
\* the people collection, an organisation word to the entities collection,
\* a vendor word to the partners collection, and a question with none of
\* these words to all three.
C20_RoutedByWordClass ==
  call = "answer_question" =>
    /\ AnyWordIn(RoleWords, Asked) => Searched(log) = {"people"}
    /\ AnyWordIn(OrgWords, Asked) => Searched(log) = {"entities"}
    /\ AnyWordIn(VendorWords, Asked) => Searched(log) = {"partners"}
    /\ (~AnyWordIn(RoleWords \cup OrgWords \cup VendorWords, Asked))
         => Searched(log) = AllCollections

\* C20, amended: the word classes are tried in the order role, vendor,
\* organisation, words counting wherever they occur in the lower-cased
\* question, also inside a longer word; the first class found decides the
\* one collection searched, and a question with none is put to all three.
C20_RoutedByFirstWordClass ==
  call = "answer_question" =>
    Searched(log) =
      IF AnyWordIn(RoleWords, Asked) THEN {"people"}
      ELSE IF AnyWordIn(VendorWords, Asked) THEN {"partners"}
      ELSE IF AnyWordIn(OrgWords, Asked) THEN {"entities"}
      ELSE AllCollections

\* A question with a vendor word and an organisation word, answered from
\* the partners collection, which holds a document.
C20_Witness ==
  /\ call = "answer_question"
  /\ AnyWordIn(VendorWords, Asked)
  /\ AnyWordIn(OrgWords, Asked)
  /\ ret.val.category = "partners"
  /\ ret.val.results # <<>>


(***************************************************************************)
(* GovernmentKnowledgeGraph.find_decision_makers_for_focus_area.  The      *)
(* pattern (p:Person)-[:WORKS_FOR]->(e:Entity) gives one row for each      *)
(* WORKS_FOR relationship of a person.                                     *)
(***************************************************************************)
MaxDecisionMakers == 20

\* The place of a value under ORDER BY: null above NaN above every number.
OrderRank(c) == CASE c.t = "null" -> 2 [] c.t = "nan" -> 1 [] OTHER -> 0

Precedes(a, b) ==
  \/ OrderRank(a) > OrderRank(b)
  \/ OrderRank(a) = OrderRank(b) /\ (OrderRank(a) > 0 \/ a.v >= b.v)

\* ORDER BY p.confidence_score DESC: equal rows stay as they are scanned.
RECURSIVE SortByConfidence(_)
SortByConfidence(rows) ==
  IF rows = <<>> THEN <<>>
  ELSE LET first == CHOOSE i \in 1..Len(rows) :
                      /\ \A j \in 1..Len(rows) : Precedes(rows[i].confidence, rows[j].confidence)
                      /\ \A j \in 1..(i - 1) : ~Precedes(rows[j].confidence, rows[i].confidence)
       IN  <<rows[first]>>
             \o SortByConfidence([j \in 1..(Len(rows) - 1) |->
                                    IF j < first THEN rows[j] ELSE rows[j + 1]])

FindDecisionMakersOp(G, focus_area, rev) ==
  LET hits == {r \in G.WORKS_FOR : \E p \in Targets(G, focus_area) : PersonRef(p) = r.src}
      scan == Ordered(hits, rev)
      rows == [k \in 1..Len(scan) |->
                 LET p == PersonOf(G, scan[k].src)
                 IN  [name |-> p.name, focus |-> p.focus_area,
                      organization |-> EntityOf(G, scan[k].dst).name,
                      confidence |-> p.confidence_score]]
  IN  Returned(Limit(SortByConfidence(rows), MaxDecisionMakers))

(***************************************************************************)
(* The decision-maker specification: two entities, two people of           *)
(* different names and confidence.                                         *)
(***************************************************************************)
DEntityRows ==
  {[entity_id |-> e, name |-> e, parent_org |-> NaN, policy_alignment |-> NaNText] :
     e \in {"E1", "E2"}}

DEntityBatches == SeqsUpTo(DEntityRows, MaxRows)

DPersonRows ==
  {[person_id |-> q, name |-> q, entity_id |-> e, role_type |-> r,
    focus_area |-> <<"A", "I">>, confidence_score |-> Num(c)] :
     q \in {"P1", "P2"}, e \in {"E1", "E2"}, r \in {"Executive", "Staff"}, c \in {3, 5}}

DPersonBatches == SeqsUpTo(DPersonRows, 1)

DFocus == {<<"a", "i">>, <<"x">>}

DImportEntities == \E b \in DEntityBatches : DoImportEntities(b)

DImportPeople == \E b \in DPersonBatches : DoImportPeople(b)

DFindDecisionMakers ==
  \E focus_area \in DFocus : \E rev \in BOOLEAN :
    /\ ret' = FindDecisionMakersOp(graph, focus_area, rev)
    /\ call' = "find_decision_makers_for_focus_area"
    /\ log' = <<>>
    /\ UNCHANGED graph

NextDecision == DImportEntities \/ DImportPeople \/ DFindDecisionMakers

SpecDecision == Init /\ [][NextDecision]_vars

\* C21: find_decision_makers_for_focus_area returns each person of a
\* decision role whose focus area contains the text once, whatever the
\* number of its WORKS_FOR relationships, and nobody else, by
\* non-increasing confidence, at most twenty.
C21_EachDecisionMakerOnce ==
  \A focus_area \in DFocus : \A rev \in BOOLEAN :
    LET rows == FindDecisionMakersOp(graph, focus_area, rev).val
        found == Targets(graph, focus_area)
    IN  /\ Len(rows) <= MaxDecisionMakers
        /\ \A k \in 1..(Len(rows) - 1) : rows[k].confidence.v >= rows[k + 1].confidence.v
        /\ \A k \in DOMAIN rows : \E p \in found : p.name = rows[k].name
        /\ Cardinality(found) <= MaxDecisionMakers =>
             \A p \in found :
               Cardinality({k \in DOMAIN rows : rows[k].name = p.name}) = 1


(***************************************************************************)
(* A further property of the path specification.                           *)
(***************************************************************************)

\* C22: every path find_shortest_path_to_decision_maker returns has
\* hops + 1 elements, each a typed node record and none null, from the
\* start entity to the target person, whatever nodes it goes through.
C22_PathsAreTypedNodes ==
  (call = "find_shortest_path_to_decision_maker" /\ ret.exc = "") =>
    \A i \in DOMAIN ret.val :
      LET path == ret.val[i].path
      IN  /\ Len(path) = ret.val[i].hops + 1
          /\ path[1].type = "Entity"
          /\ path[Len(path)].type = "Person"
          /\ \A k \in DOMAIN path : path[k].type # "null" /\ path[k].name # "null"


(***************************************************************************)
(* A further property of the partner specification.                        *)
(***************************************************************************)

\* C23: after import_partners on a batch whose rows all name an entity
\* of the graph, every row has a PARTNERS_WITH relationship from its
\* company to its entity that carries the relationship type, contract
\* value and contract year of that row, also when two rows name the same
\* company and entity.
C23_OnePartnershipPerRow ==
  \A b \in PartnerBatches :
    (\A k \in DOMAIN b : MatchEntity(graph, b[k].entity_id) # {}) =>
      LET after == ImportPartnersOp(graph, b).g
      IN  \A k \in DOMAIN b :
            \E r \in after.PARTNERS_WITH :
              /\ r.src[1] = b[k].partner_id
              /\ r.dst[1] = b[k].entity_id
              /\ r.relationship_type = b[k].relationship_type
              /\ r.contract_value_rm = ToInteger(b[k].contract_value_rm)
              /\ r.contract_year = ToInteger(b[k].contract_year)


(***************************************************************************)
(* AdvancedSearch.hybrid_search.  Scores are kept as fractions: relevance  *)
(* and keyword_boost in tenths, a hybrid score as a numerator over         *)
(* 100 * len(query_terms).  The relevance of a document to the query is    *)
(* the embedding's matter: rel gives it for every document of the store,   *)
(* and a collection query returns its documents by non-increasing          *)
(* relevance.                                                              *)
(***************************************************************************)
\* str.split(): the pieces between blanks, none empty
Words(s) == SelectSeq(Split(s, " "), LAMBDA w : w # <<>>)

\* set(text.lower().split())
Terms(text) == Range(Words(ToLower(text)))

\* list.sort(key=..., reverse=True), ORDER BY ... DESC on a number: rows
\* of equal key stay in the order they had.
RECURSIVE SortDescBy(_, _)
SortDescBy(rows, field) ==
  IF rows = <<>> THEN <<>>
  ELSE LET first == CHOOSE i \in 1..Len(rows) :
                      /\ \A j \in 1..Len(rows) : rows[i][field] >= rows[j][field]
                      /\ \A j \in 1..(i - 1) : rows[j][field] < rows[i][field]
       IN  <<rows[first]>>
             \o SortDescBy([j \in 1..(Len(rows) - 1) |->
                              IF j < first THEN rows[j] ELSE rows[j + 1]], field)

\* collection.query and _format_results, nearest first
SemanticSearch(S, name, n_results, rel, rev) ==
  LET scan == Ordered(S[name], rev)
      rows == [k \in 1..Len(scan) |->
                 [id |-> scan[k].id, document |-> scan[k].document,
                  relevance_score |-> rel[scan[k].id]]]
  IN  Limit(SortDescBy(rows, "relevance_score"), n_results)

\* search_all
SearchAll(S, n_results, rel, rev) ==
  LET one(name) ==
        LET found == SemanticSearch(S, name, n_results, rel, rev)
        IN  [k \in 1..Len(found) |->
               [id |-> found[k].id, document |-> found[k].document,
                relevance_score |-> found[k].relevance_score, category |-> name]]
  IN  one("entities") \o one("people") \o one("partners")

\* (1 - keyword_boost) * semantic_score + keyword_boost * keyword_score,
\* times 100 * len(query_terms)
HybridNumerator(query_terms, document, relevance_score, keyword_boost) ==
  (10 - keyword_boost) * relevance_score * Cardinality(query_terms)
    + keyword_boost * 10 * Cardinality(query_terms \cap Terms(document))

HybridSearchOp(S, query, keyword_boost, n_results, rel, rev) ==
  LET semantic_results == SearchAll(S, n_results, rel, rev)
      query_terms == Terms(query)
      all_results ==
        [k \in 1..Len(semantic_results) |->
           [id |-> semantic_results[k].id,
            document |-> semantic_results[k].document,
            relevance_score |-> semantic_results[k].relevance_score,
            category |-> semantic_results[k].category,
            hybrid_score |-> HybridNumerator(query_terms, semantic_results[k].document,
                                             semantic_results[k].relevance_score,
                                             keyword_boost),
            over |-> 100 * Cardinality(query_terms)]]
  IN  IF semantic_results # <<>> /\ query_terms = {}
      THEN Raised("ZeroDivisionError")
      ELSE Returned(Limit(SortDescBy(all_results, "hybrid_score"), n_results))

(***************************************************************************)
(* The hybrid specification: one entity, one person and one partner        *)
(* document of one or two words.                                           *)
(***************************************************************************)
Texts == {<<"a", "i">>, <<"A", "I", " ", "x">>}

Queries == {<<>>, <<" ">>, <<"a", "i">>, <<"x", " ", "A", "i">>}

KeywordBoosts == {0, 3, 10}

ResultCounts == {1, 10}

Relevances(S) ==
  [{d.id : d \in S.entities \cup S.people \cup S.partners} -> {2, 9}]

HIndexEntities ==
  \E text \in Texts : \E o \in OnExisting :
    DoIndex("entities", <<[kind |-> "entity_", key |-> "E1", name |-> text]>>, o)

HIndexPeople ==
  \E text \in Texts : \E o \in OnExisting :
    DoIndex("people", <<[kind |-> "person_", key |-> "P1", name |-> text]>>, o)

HIndexPartners ==
  \E text \in Texts : \E o \in OnExisting :
    DoIndex("partners", <<[kind |-> "partner_", key |-> "C1", name |-> text]>>, o)

HybridSearch ==
  \E query \in Queries : \E keyword_boost \in KeywordBoosts :
  \E n_results \in ResultCounts : \E rel \in Relevances(graph) : \E rev \in BOOLEAN :
    /\ ret' = HybridSearchOp(graph, query, keyword_boost, n_results, rel, rev)
    /\ call' = "hybrid_search"
    /\ log' = <<>>
    /\ UNCHANGED graph

NextHybrid == HIndexEntities \/ HIndexPeople \/ HIndexPartners \/ HybridSearch

SpecHybrid == StoreInit /\ [][NextHybrid]_vars

\* C24: hybrid_search returns, for every query text, the empty and the
\* blank one too, a list of at most n_results records and does not
\* raise; every record is a document of the store, and the records come
\* by non-increasing hybrid score.
C24_HybridSearchReturnsRankedList ==
  call = "hybrid_search" =>
    /\ ret.exc = ""
    /\ Len(ret.val) <= 10
    /\ \A k \in DOMAIN ret.val :
         \E d \in graph.entities \cup graph.people \cup graph.partners :
           d.id = ret.val[k].id /\ d.document = ret.val[k].document
    /\ \A k \in 1..(Len(ret.val) - 1) :
         ret.val[k].hybrid_score >= ret.val[k + 1].hybrid_score


(***************************************************************************)
(* import_entities cut short.  The method runs its queries one after the   *)
(* other, each in a transaction of its own: when the process is stopped    *)
(* after a step, the steps before it stay written.                         *)
(***************************************************************************)
ImportSteps == {"nodes", "hierarchy", "policies"}

ImportEntitiesUpTo(G, batch, step) ==
  LET m == MergeEntities(G, batch)
      h == CreateEntityHierarchy(m.g, batch)
      p == CreatePolicyAlignments(h.g, batch)
      l == <<[msg |-> "Importing entities", n |-> Len(batch)],
             [msg |-> "entity nodes", n |-> m.c]>>
  IN  [g |-> CASE step = "nodes" -> m.g [] step = "hierarchy" -> h.g [] OTHER -> p.g,
       log |-> CASE step = "nodes" -> l
                 [] step = "hierarchy" -> l \o h.log
                 [] OTHER -> l \o h.log \o p.log,
       ret |-> Raised("Interrupted")]

IEntityRows ==
  [entity_id : {"E1", "E2"}, name : {"n"}, parent_org : {NaN, "E1"},
   policy_alignment : {NaNText, <<"a">>}]

IEntityBatches == SeqsUpTo(IEntityRows, MaxRows)

IImportEntities == \E b \in IEntityBatches : DoImportEntities(b)

IImportEntitiesInterrupted ==
  \E b \in IEntityBatches : \E step \in ImportSteps :
    LET r == ImportEntitiesUpTo(graph, b, step)
    IN  /\ graph' = r.g
        /\ ret' = r.ret
        /\ log' = r.log
        /\ call' = "import_entities"

NextInterrupt == IImportEntities \/ IImportEntitiesInterrupted

SpecInterrupt == Init /\ [][NextInterrupt]_vars

\* C25: when import_entities is stopped after any of its steps and the
\* same batch is imported again to the end, the graph is the one a single
\* import of the batch leaves.
C25_InterruptedImportRepeats ==
  \A b \in IEntityBatches : \A step \in ImportSteps :
    LET again == ImportEntitiesOp(ImportEntitiesUpTo(graph, b, step).g, b)
        once == ImportEntitiesOp(graph, b)
    IN  /\ again.ret.exc = ""
        /\ again.g = once.g

\* An import stopped after the node merge, of a batch that has a
\* relationship and a policy still to write.
C25_Witness ==
  /\ call = "import_entities"
  /\ ret.exc = "Interrupted"
  /\ graph.REPORTS_TO = {}
  /\ graph.Policy = {}
  /\ \E b \in IEntityBatches :
       /\ graph = ImportEntitiesUpTo(EmptyGraph, b, "nodes").g
       /\ ImportEntitiesOp(graph, b).g.REPORTS_TO # {}
       /\ ImportEntitiesOp(graph, b).g.ALIGNED_TO # {}
       /\ ImportEntitiesOp(graph, b).g = ImportEntitiesOp(EmptyGraph, b).g


(***************************************************************************)
(* The statistics specification: the imports of the load specification,    *)
(* one at a time, and get_graph_statistics.                                *)
(***************************************************************************)
SImportEntities == \E b \in LEntityBatches : DoImportEntities(b)

SImportPeople == \E b \in LPeopleBatches : DoImportPeople(b)

SImportPartners == \E b \in LCompanyBatches : DoImportPartners(b)

SGetGraphStatistics ==
  /\ ret' = GetGraphStatisticsOp(graph)
  /\ call' = "get_graph_statistics"
  /\ log' = <<>>
  /\ UNCHANGED graph

NextStatistics ==
  SImportEntities \/ SImportPeople \/ SImportPartners \/ SGetGraphStatistics

SpecStatistics == Init /\ [][NextStatistics]_vars

\* C26: get_graph_statistics returns, in every state of the graph, also
\* one with no node of some kind or with no relationship, the number of
\* nodes of each kind and the number of relationships; the counts of the
\* kinds add up to no more than the number of nodes.
C26_StatisticsCountEveryKind ==
  call = "get_graph_statistics" =>
    /\ ret.exc = ""
    /\ ret.val.entities = Cardinality(graph.Entity)
    /\ ret.val.people = Cardinality(graph.Person)
    /\ ret.val.companies = Cardinality(graph.Company)
    /\ ret.val.policies = Cardinality(graph.Policy)
    /\ ret.val.relationships =
         Cardinality(graph.REPORTS_TO) + Cardinality(graph.WORKS_FOR)
           + Cardinality(graph.PARTNERS_WITH) + Cardinality(graph.ALIGNED_TO)
    /\ ret.val.entities + ret.val.people + ret.val.companies + ret.val.policies
         <= Cardinality(AllNodes(graph))


(***************************************************************************)
(* A further property of the specification of the three imports.           *)
(***************************************************************************)
NodeRefs(G) == {<<v[1], v[2]>> : v \in AllNodes(G)}

EdgeRefs(G) ==
  {<<"REPORTS_TO", r.src, r.dst, r.n>> : r \in G.REPORTS_TO}
    \cup {<<"WORKS_FOR", r.src, r.dst, r.n>> : r \in G.WORKS_FOR}
    \cup {<<"PARTNERS_WITH", r.src, r.dst, r.n>> : r \in G.PARTNERS_WITH}
    \cup {<<"ALIGNED_TO", r.src, r.dst, r.n>> : r \in G.ALIGNED_TO}

DistinctIds(b) ==
  \A j \in DOMAIN b : \A k \in DOMAIN b : j # k => b[j].entity_id # b[k].entity_id

Edge(child, parent) == <<child, parent>>

\* C28: the graph import_entities leaves does not depend on the order of
\* the rows of a batch of distinct entity_ids: a child listed before its
\* parent gets its REPORTS_TO relationship.  A child imported when its
\* parent is not in the graph gets none, also not when the parent is
\* imported later, until the child's row is imported again.
C28_RowOrderDoesNotMatter ==
  /\ \A b \in HEntityBatches :
       DistinctIds(b) => ImportEntitiesOp(graph, Reverse(b)).g = ImportEntitiesOp(graph, b).g
  /\ \A c \in HEntityRows : \A p \in HEntityRows :
       (/\ c.parent_org = p.entity_id
        /\ c.entity_id # p.entity_id
        /\ p.parent_org = NaN
        /\ c.policy_alignment = NaNText
        /\ p.policy_alignment = NaNText
        /\ p.entity_id \notin EntityIdsOf(graph)
        /\ Edge(c.entity_id, p.entity_id) \notin ReportsToPairs(graph)) =>
         LET child == ImportEntitiesOp(graph, <<c>>).g
             parent == ImportEntitiesOp(child, <<p>>).g
             again == ImportEntitiesOp(parent, <<c>>).g
         IN  /\ Edge(c.entity_id, p.entity_id) \notin ReportsToPairs(child)
             /\ Edge(c.entity_id, p.entity_id) \notin ReportsToPairs(parent)
             /\ Edge(c.entity_id, p.entity_id) \in ReportsToPairs(again)

\* A batch that lists a child before its parent has been imported into
\* the empty graph, and the child reports to the parent.
C28_Witness ==
  /\ call = "import_entities"
  /\ ret.exc = ""
  /\ \E b \in HEntityBatches :
       /\ Len(b) = 2
       /\ b[1].parent_org = b[2].entity_id
       /\ b[1].entity_id # b[2].entity_id
       /\ graph = ImportEntitiesOp(EmptyGraph, b).g
       /\ Edge(b[1].entity_id, b[2].entity_id) \in ReportsToPairs(graph)


(***************************************************************************)
(* A further property of the answer specification.                         *)
(***************************************************************************)
Keywords == RoleWords \cup VendorWords \cup OrgWords

\* C29: a question in which a routing keyword occurs, as a substring of
\* its lower-cased text, is put to exactly one collection: people before
\* partners before entities; all three collections are searched if and
\* only if no keyword occurs.
C29_OneCollectionByPrecedence ==
  call = "answer_question" =>
    /\ AnyWordIn(Keywords, Asked) =>
         /\ Len(log) = 1
         /\ AnyWordIn(RoleWords, Asked) => log[1].collection = "people"
         /\ (~AnyWordIn(RoleWords, Asked) /\ AnyWordIn(VendorWords, Asked))
              => log[1].collection = "partners"
         /\ (~AnyWordIn(RoleWords \cup VendorWords, Asked)) => log[1].collection = "entities"
    /\ (Searched(log) = AllCollections) <=> ~AnyWordIn(Keywords, Asked)

\* The question 'whole', where 'who' occurs inside a longer word only, has
\* been put to the people collection.
C29_Witness ==
  /\ call = "answer_question"
  /\ ret.val.question = <<"w", "h", "o", "l", "e">>
  /\ Searched(log) = {"people"}

(***************************************************************************)
(* Bulk export (src/neo4j_connector.py: export_nodes_to_df and             *)
(* export_relationships_to_df) of a database written by Neo4jLoader        *)
(* (src/neo4j_loader.py).  Here graph holds the stored nodes and           *)
(* relationships as the engine keeps them: a node has the engine's id,     *)
(* its label and its property map, a relationship the engine ids of its    *)
(* ends, its type and its property map.  Nothing is deleted, so the        *)
(* engine's next id is the number of nodes.  An exported value carries     *)
(* its Python type, since id(n) is an integer and a property a string.     *)
(***************************************************************************)
ExportEmptyGraph == [nodes |-> {}, rels |-> {}]

IntVal(k) == <<"int", k>>
StrVal(s) == <<"str", s>>

\* row.update(other): a key of other replaces the same key of row.
DictUpdate(row, other) ==
  [k \in DOMAIN row \cup DOMAIN other |->
     IF k \in DOMAIN other THEN other[k] ELSE row[k]]

\* MERGE (x:Label {id: $id}) SET x.k = v, ...
MergeNode(nodes, label, id, props) ==
  LET m == {x \in nodes : x.label = label /\ x.props["id"] = StrVal(id)}
  IN  IF m = {}
      THEN nodes \cup {[iid |-> Cardinality(nodes), label |-> label,
                        props |-> DictUpdate([id |-> StrVal(id)], props)]}
      ELSE (nodes \ m) \cup {[x EXCEPT !.props = DictUpdate(@, props)] : x \in m}

\* The properties each load sets besides the key.
LoaderEntityProps(row) == [name |-> StrVal(row.name), type |-> StrVal(row.type)]
LoaderPersonProps(row) == [name |-> StrVal(row.name), entity |-> StrVal(row.entity)]
LoaderPartnerProps(row) == [company_name |-> StrVal(row.company_name),
                      govt_entity |-> StrVal(row.govt_entity)]

RECURSIVE MergeNodes(_, _, _, _)
MergeNodes(nodes, label, rows, k) ==
  IF k > Len(rows) THEN nodes
  ELSE LET row == rows[k]
           props == CASE label = "Entity" -> LoaderEntityProps(row)
                      [] label = "Person" -> LoaderPersonProps(row)
                      [] OTHER -> LoaderPartnerProps(row)
       IN  MergeNodes(MergeNode(nodes, label, row.id, props), label, rows, k + 1)

\* load_entities, load_people, load_partners: one MERGE per row.
LoadNodesOp(G, label, rows) ==
  [g |-> [G EXCEPT !.nodes = MergeNodes(@, label, rows, 1)],
   ret |-> Returned("None")]

\* MATCH (p:Label), (e:Entity) WHERE p.key = e.name MERGE (p)-[:TYPE]->(e)
MergeByName(G, label, key, type) ==
  {[src |-> p.iid, dst |-> e.iid, type |-> type, props |-> <<>>] :
     <<p, e>> \in {pe \in G.nodes \X G.nodes :
                     /\ pe[1].label = label
                     /\ pe[2].label = "Entity"
                     /\ pe[1].props[key] = pe[2].props["name"]}}

\* create_relationships: WORKS_AT, then PARTNERS_WITH.
CreateRelationshipsOp(G) ==
  [g |-> [G EXCEPT !.rels = @ \cup MergeByName(G, "Person", "entity", "WORKS_AT")
                              \cup MergeByName(G, "Partner", "govt_entity", "PARTNERS_WITH")],
   ret |-> Returned("None")]

\* export_nodes_to_df: the row starts as id and labels, then takes every
\* property of the node.  The rows come in the engine's scan order.
NodeRow(x) == DictUpdate([id |-> IntVal(x.iid), labels |-> StrVal(x.label)], x.props)

ExportNodesToDfOp(G, rev) ==
  LET found == Ordered(G.nodes, rev)
  IN  Returned([i \in 1..Len(found) |-> NodeRow(found[i])])

\* export_relationships_to_df: source_id, target_id and type, then every
\* property of the relationship when it has any.
RelationshipRow(r) ==
  LET row == [source_id |-> IntVal(r.src), target_id |-> IntVal(r.dst),
              type |-> StrVal(r.type)]
  IN  IF DOMAIN r.props # {} THEN DictUpdate(row, r.props) ELSE row

ExportRelationshipsToDfOp(G, rev) ==
  LET found == Ordered(G.rels, rev)
  IN  Returned([i \in 1..Len(found) |-> RelationshipRow(found[i])])

XEntityRows == [id : {"1", "2"}, name : {"a", "b"}, type : {"t"}]
XPersonRows == [id : {"1"}, name : {"p"}, entity : {"a", "b"}]
XPartnerRows == [id : {"1"}, company_name : {"c"}, govt_entity : {"a", "b"}]

ExportInit ==
  /\ graph = ExportEmptyGraph
  /\ call = "init"
  /\ ret = Returned("None")
  /\ log = <<>>

DoLoadNodes(label, rows, name) ==
  LET r == LoadNodesOp(graph, label, rows)
  IN  /\ graph' = r.g
      /\ ret' = r.ret
      /\ call' = name
      /\ log' = <<>>

XLoadEntities ==
  \E rows \in SeqsUpTo(XEntityRows, MaxRows) : DoLoadNodes("Entity", rows, "load_entities")

XLoadPeople ==
  \E rows \in SeqsUpTo(XPersonRows, MaxRows) : DoLoadNodes("Person", rows, "load_people")

XLoadPartners ==
  \E rows \in SeqsUpTo(XPartnerRows, MaxRows) : DoLoadNodes("Partner", rows, "load_partners")

XCreateRelationships ==
  LET r == CreateRelationshipsOp(graph)
  IN  /\ graph' = r.g
      /\ ret' = r.ret
      /\ call' = "create_relationships"
      /\ log' = <<>>

ExportNodesToDf ==
  \E rev \in BOOLEAN :
    /\ ret' = ExportNodesToDfOp(graph, rev)
    /\ call' = "export_nodes_to_df"
    /\ UNCHANGED <<graph, log>>

ExportRelationshipsToDf ==
  \E rev \in BOOLEAN :
    /\ ret' = ExportRelationshipsToDfOp(graph, rev)
    /\ call' = "export_relationships_to_df"
    /\ UNCHANGED <<graph, log>>

NextExport ==
  \/ XLoadEntities
  \/ XLoadPeople
  \/ XLoadPartners
  \/ XCreateRelationships
  \/ ExportNodesToDf
  \/ ExportRelationshipsToDf

SpecExport == ExportInit /\ [][NextExport]_vars

\* The rows of the node export whose id column holds the value v.
RowsWithId(nodeRows, v) == {j \in 1..Len(nodeRows) : nodeRows[j]["id"] = v}

\* C30: every row of export_relationships_to_df refers to exported nodes:
\* its source_id and its target_id each equal the id column of exactly one
\* row of export_nodes_to_df, and its type column is the relationship type,
\* whatever properties the nodes and relationships carry.
C30_RelationshipRowsReferToExportedNodes ==
  \A revN \in BOOLEAN : \A revR \in BOOLEAN :
    LET nodeRows == ExportNodesToDfOp(graph, revN).val
        found == Ordered(graph.rels, revR)
        relRows == ExportRelationshipsToDfOp(graph, revR).val
    IN  \A i \in 1..Len(relRows) :
          /\ Cardinality(RowsWithId(nodeRows, relRows[i]["source_id"])) = 1
          /\ Cardinality(RowsWithId(nodeRows, relRows[i]["target_id"])) = 1
          /\ relRows[i]["type"] = StrVal(found[i].type)

====
